---- MODULE Spec2Model ----
(***************************************************************************)
(* Model of the dual-provider image search gateway of src/src/api.ts:      *)
(* the process-wide apiConfig / apiState, initializeApiConfig,             *)
(* switchApiProvider, isRateLimitError, the two provider clients and the   *)
(* searchImages invocation with its suspend points at the HTTP requests.   *)
(***************************************************************************)
EXTENDS Integers, Sequences, FiniteSets, TLC

\* ---------------------------------------------------------------- bounds
\* Largest number of items a backend puts in one response.
MaxItems == 3
\* Largest `limit` a caller passes to searchImages.
MaxLimit == 3
\* Largest number of search results handed to analyze_images.
MaxResults == 7

\* Google Custom Search serves at most 10 results per request.
GoogleMaxPerRequest == 10

\* ------------------------------------------------------------ vocabulary
GOOGLE_CUSTOM_SEARCH == "google"
SERP_API == "serp"
ApiProvider == {GOOGLE_CUSTOM_SEARCH, SERP_API}

\* An environment variable is unset, the empty string, or a key.
CredValues == {"undefined", "", "key"}
\* JavaScript truthiness of such a value.
Truthy(v) == v = "key"

ApiConfig == [googleApiKey : CredValues, googleCseId : CredValues, serpApiKey : CredValues]

\* The invocation slots: at most two searchImages invocations exist at a time.
Slots == {1, 2}

Min(a, b) == IF a < b THEN a ELSE b

\* ------------------------------------------------------------ strings
\* Strings the code searches are sequences of characters.
PhraseRateLimit == <<"r", "a", "t", "e", " ", "l", "i", "m", "i", "t">>
PhraseQuota == <<"q", "u", "o", "t", "a">>
PhraseLimitExceeded == <<"l", "i", "m", "i", "t", " ", "e", "x", "c", "e", "e", "d", "e", "d">>

\* String.prototype.includes: `sub` occurs in `s` as a contiguous run
\* (case-sensitive).
Includes(s, sub) ==
  \E i \in 0..(Len(s) - Len(sub)) : SubSeq(s, i + 1, i + Len(sub)) = sub

\* Error strings a backend puts in the `error` field of its body.
ErrorStrings ==
  { <<"r", "a", "t", "e", " ", "l", "i", "m", "i", "t", " ", "h", "i", "t">>,
    <<"o", "v", "e", "r", " ", "q", "u", "o", "t", "a">>,
    <<"l", "i", "m", "i", "t", " ", "e", "x", "c", "e", "e", "d", "e", "d">>,
    <<"R", "a", "t", "e", " ", "L", "i", "m", "i", "t">>,
    <<"b", "a", "d", " ", "k", "e", "y">>,
    <<>> }

\* A response body (error.response.data): absent, a plain text body, or a
\* JSON object whose `error` field is absent, a string or a structured object
\* (`str` is the text body, the error string, or the object's message).
NoData == [shape |-> "undefined", errorKind |-> "absent", str |-> <<>>]
Bodies ==
  { NoData,
    [shape |-> "text", errorKind |-> "absent", str |-> <<"b", "a", "d", " ", "k", "e", "y">>],
    [shape |-> "json", errorKind |-> "absent", str |-> <<>>],
    [shape |-> "json", errorKind |-> "object", str |-> <<"b", "a", "d", " ", "k", "e", "y">>] }
  \cup { [shape |-> "json", errorKind |-> "string", str |-> t] : t \in ErrorStrings }

\* HTTP statuses of failed requests.
ErrorStatuses == {403, 429, 500}

\* ------------------------------------------------------------ errors
NoError == [kind |-> "none", status |-> 0, data |-> NoData, provider |-> "none"]
\* An axios error carrying a response (non-2xx status).
HttpError(status, data) ==
  [kind |-> "http", status |-> status, data |-> data, provider |-> "none"]
\* An axios error without a response (DNS failure, connection reset, timeout).
NetworkError == [kind |-> "network", status |-> 0, data |-> NoData, provider |-> "none"]
\* new Error('No image results found')
NoResultsError == [kind |-> "noresults", status |-> 0, data |-> NoData, provider |-> "none"]
\* new Error('Google API configuration not available') and its SerpAPI twin.
ConfigError(p) == [kind |-> "config", status |-> 0, data |-> NoData, provider |-> p]
\* TypeError: data.error.includes is not a function
TypeErrorValue == [kind |-> "TypeError", status |-> 0, data |-> NoData, provider |-> "none"]

HasResponse(e) == e.kind = "http"

\* ------------------------------------------------------------ state
VARIABLES
  apiConfig,   \* the credentials read by the last initializeApiConfig
  apiState,    \* currentProvider, googleDisabled, serpDisabled
  calls,       \* per slot: the searchImages invocation running in it
  lastInit,    \* history: outcome of the last initializeApiConfig call
  failedFrom,  \* history: provider failed over from since the last initializeApiConfig
  dl,          \* the downloadImage invocation: its arguments, position and outcome
  fs,          \* the filesystem: the directories and the files that exist
  fetches,     \* the URLs an HTTP request was issued for (downloadImage)
  sc,          \* the calculateRelevanceScore call: its arguments and its result
  an,          \* the analyze_images call: its arguments and its output
  uv           \* the isValidImageUrl call: its argument and its result

gatewayVars == <<apiConfig, apiState, calls, lastInit, failedFrom>>
downloadVars == <<dl, fs, fetches>>
scoreVars == <<sc, an>>
urlVars == <<uv>>
vars == <<apiConfig, apiState, calls, lastInit, failedFrom, dl, fs, fetches, sc, an, uv>>

\* ------------------------------------------------------------ initializeApiConfig
HasGoogleConfig(config) == Truthy(config.googleApiKey) /\ Truthy(config.googleCseId)
HasSerpConfig(config) == Truthy(config.serpApiKey)

\* Mutant: SerpAPI is preferred when both credential sets are present.
SelectProviderSerpFirst(config) ==
  IF HasSerpConfig(config) THEN SERP_API
  ELSE IF HasGoogleConfig(config) THEN GOOGLE_CUSTOM_SEARCH
  ELSE "throw"

\* The branch initializeApiConfig takes: the provider it makes current, or "throw".
SelectProvider(config) ==
  IF HasGoogleConfig(config) THEN GOOGLE_CUSTOM_SEARCH
  ELSE IF HasSerpConfig(config) THEN SERP_API
  ELSE "throw"

\* ------------------------------------------------------------ switchApiProvider
Other(p) == IF p = GOOGLE_CUSTOM_SEARCH THEN SERP_API ELSE GOOGLE_CUSTOM_SEARCH

\* Mutant: switches without flagging the provider it leaves.
SwitchApiProviderNoFlag(state, config) ==
  IF state.currentProvider = GOOGLE_CUSTOM_SEARCH /\ ~state.serpDisabled
     /\ Truthy(config.serpApiKey)
  THEN [switched |-> TRUE, state |-> [state EXCEPT !.currentProvider = SERP_API]]
  ELSE IF state.currentProvider = SERP_API /\ ~state.googleDisabled
          /\ Truthy(config.googleApiKey) /\ Truthy(config.googleCseId)
  THEN [switched |-> TRUE, state |-> [state EXCEPT !.currentProvider = GOOGLE_CUSTOM_SEARCH]]
  ELSE [switched |-> FALSE, state |-> state]

\* Mutant: flags the provider it leaves but keeps it current.
SwitchApiProviderStay(state, config) ==
  IF state.currentProvider = GOOGLE_CUSTOM_SEARCH /\ ~state.serpDisabled
     /\ Truthy(config.serpApiKey)
  THEN [switched |-> TRUE, state |-> [state EXCEPT !.googleDisabled = TRUE]]
  ELSE IF state.currentProvider = SERP_API /\ ~state.googleDisabled
          /\ Truthy(config.googleApiKey) /\ Truthy(config.googleCseId)
  THEN [switched |-> TRUE, state |-> [state EXCEPT !.serpDisabled = TRUE]]
  ELSE [switched |-> FALSE, state |-> state]

\* Mutant: flags both providers when it leaves Google.
SwitchApiProviderFlagBoth(state, config) ==
  IF state.currentProvider = GOOGLE_CUSTOM_SEARCH /\ ~state.serpDisabled
     /\ Truthy(config.serpApiKey)
  THEN [switched |-> TRUE,
        state |-> [currentProvider |-> SERP_API, googleDisabled |-> TRUE,
                   serpDisabled |-> TRUE]]
  ELSE IF state.currentProvider = SERP_API /\ ~state.googleDisabled
          /\ Truthy(config.googleApiKey) /\ Truthy(config.googleCseId)
  THEN [switched |-> TRUE,
        state |-> [state EXCEPT !.currentProvider = GOOGLE_CUSTOM_SEARCH,
                                !.serpDisabled = TRUE]]
  ELSE [switched |-> FALSE, state |-> state]

\* switchApiProvider(): the value it returns and the apiState it leaves.
SwitchApiProvider(state, config) ==
  IF state.currentProvider = GOOGLE_CUSTOM_SEARCH /\ ~state.serpDisabled
     /\ Truthy(config.serpApiKey)
  THEN [switched |-> TRUE,
        state |-> [state EXCEPT !.currentProvider = SERP_API,
                                !.googleDisabled = TRUE]]
  ELSE IF state.currentProvider = SERP_API /\ ~state.googleDisabled
          /\ Truthy(config.googleApiKey) /\ Truthy(config.googleCseId)
  THEN [switched |-> TRUE,
        state |-> [state EXCEPT !.currentProvider = GOOGLE_CUSTOM_SEARCH,
                                !.serpDisabled = TRUE]]
  ELSE [switched |-> FALSE, state |-> state]

\* ------------------------------------------------------------ isRateLimitError
\* JavaScript truthiness of error.response.data and of data.error.
DataTruthy(data) == data.shape = "json" \/ (data.shape = "text" /\ data.str # <<>>)
DataErrorTruthy(data) ==
  /\ data.shape = "json"
  /\ \/ data.errorKind = "object"
     \/ (data.errorKind = "string" /\ data.str # <<>>)

\* isRateLimitError(error): "true", "false", or "TypeError" when the call
\* data.error.includes(...) is made on a value that has no such method.
IsRateLimitError(error) ==
  IF ~HasResponse(error) THEN "false"
  ELSE IF error.status = 429 \/ error.status = 403 THEN "true"
  ELSE IF error.status = 429 THEN "true"
  ELSE IF ~(DataTruthy(error.data) /\ DataErrorTruthy(error.data)) THEN "false"
  ELSE IF error.data.errorKind # "string" THEN "TypeError"
  ELSE IF \/ Includes(error.data.str, PhraseRateLimit)
          \/ Includes(error.data.str, PhraseQuota)
          \/ Includes(error.data.str, PhraseLimitExceeded)
       THEN "true"
  ELSE "false"

\* ------------------------------------------------------------ backends
\* Item ids of a response of m items, in one of two orders.
ItemId(m, order, i) == IF order = "asc" THEN i ELSE m + 1 - i

\* A GoogleImageItem as the Google backend returns it.
GoogleItems(m, order) ==
  [i \in 1..m |-> [link |-> ItemId(m, order, i), displayLink |-> GOOGLE_CUSTOM_SEARCH]]
\* SerpAPI returns items in the common format, numbered from 1 by the backend.
SerpItems(m, order) ==
  [i \in 1..m |-> [position |-> i, original |-> ItemId(m, order, i),
                   source |-> SERP_API, is_product |-> FALSE]]
BackendItems(p, m, order) ==
  IF p = GOOGLE_CUSTOM_SEARCH THEN GoogleItems(m, order) ELSE SerpItems(m, order)

\* What a backend can answer to one request: a 2xx response whose result
\* field is missing or holds 0..MaxItems items, a non-2xx response, or nothing.
NoOutcome == [ok |-> FALSE, hasField |-> FALSE, items |-> <<>>, err |-> NoError]
Outcomes(p) ==
  { [ok |-> TRUE, hasField |-> FALSE, items |-> <<>>, err |-> NoError] }
  \cup { [ok |-> TRUE, hasField |-> TRUE, items |-> BackendItems(p, m, order), err |-> NoError] :
           m \in 0..MaxItems, order \in {"asc", "desc"} }
  \cup { [ok |-> FALSE, hasField |-> FALSE, items |-> <<>>, err |-> HttpError(st, d)] :
           st \in ErrorStatuses, d \in Bodies }
  \cup { [ok |-> FALSE, hasField |-> FALSE, items |-> <<>>, err |-> NetworkError] }

\* ------------------------------------------------------------ provider clients
\* Mutant: the whole list is kept.
SliceWhole(items, end) == items

\* Array.prototype.slice(0, end) for end >= 0.
Slice(items, end) == SubSeq(items, 1, Min(end, Len(items)))

\* convertGoogleResultToCommonFormat(item, index), index counted from 0.
ConvertGoogleResultToCommonFormat(item, index) ==
  [position |-> index + 1, original |-> item.link, source |-> item.displayLink,
   is_product |-> FALSE]

\* The part of a provider client that runs before its HTTP request: the
\* credential check, and the request it sends.
NoRequest == [sent |-> FALSE, provider |-> "none", num |-> 0]
GoogleRequest(config, limit) ==
  IF ~Truthy(config.googleApiKey) \/ ~Truthy(config.googleCseId)
  THEN [sent |-> FALSE, provider |-> GOOGLE_CUSTOM_SEARCH, num |-> 0]
  ELSE [sent |-> TRUE, provider |-> GOOGLE_CUSTOM_SEARCH,
        num |-> Min(limit, GoogleMaxPerRequest)]
SerpRequest(config, limit) ==
  IF ~Truthy(config.serpApiKey)
  THEN [sent |-> FALSE, provider |-> SERP_API, num |-> 0]
  ELSE [sent |-> TRUE, provider |-> SERP_API, num |-> 0]
Request(p, config, limit) ==
  IF p = GOOGLE_CUSTOM_SEARCH THEN GoogleRequest(config, limit)
  ELSE SerpRequest(config, limit)

\* The part that runs when the request settles: what the client's promise
\* resolves to (ok, value) or rejects with (error).
Rejected(e) == [ok |-> FALSE, value |-> <<>>, error |-> e]
Resolved(v) == [ok |-> TRUE, value |-> v, error |-> NoError]

SearchImagesViaGoogle(req, o, limit) ==
  IF ~req.sent THEN Rejected(ConfigError(GOOGLE_CUSTOM_SEARCH))
  ELSE IF ~o.ok THEN Rejected(o.err)
  ELSE IF ~o.hasField THEN Rejected(NoResultsError)
  ELSE LET kept == Slice(o.items, limit)
       IN Resolved([i \in 1..Len(kept) |->
                      ConvertGoogleResultToCommonFormat(kept[i], i - 1)])

SearchImagesViaSerpAPI(req, o, limit) ==
  IF ~req.sent THEN Rejected(ConfigError(SERP_API))
  ELSE IF ~o.ok THEN Rejected(o.err)
  ELSE IF ~o.hasField THEN Rejected(NoResultsError)
  ELSE Resolved(Slice(o.items, limit))

ProviderResult(req, o, limit) ==
  IF req.provider = GOOGLE_CUSTOM_SEARCH THEN SearchImagesViaGoogle(req, o, limit)
  ELSE SearchImagesViaSerpAPI(req, o, limit)

\* The outcomes a pending attempt can settle with: a request that was never
\* sent settles with the credential error alone.
SettleOutcomes(req) == IF req.sent THEN Outcomes(req.provider) ELSE {NoOutcome}

\* ------------------------------------------------------------ characters
Letters ==
  { "a", "b", "c", "d", "e", "f", "g", "h", "i", "j", "k", "l", "m", "n", "o", "p",
    "q", "r", "s", "t", "u", "v", "w", "x", "y", "z",
    "A", "B", "C", "D", "E", "F", "G", "H", "I", "J", "K", "L", "M", "N", "O", "P",
    "Q", "R", "S", "T", "U", "V", "W", "X", "Y", "Z" }
DigitChars == <<"0", "1", "2", "3", "4", "5", "6", "7", "8", "9">>
Digits == { DigitChars[i] : i \in 1..10 }
UpperCase == <<"A", "B", "C", "D", "E", "F", "G", "H", "I", "J", "K", "L", "M", "N", "O", "P", "Q", "R", "S", "T", "U", "V", "W", "X", "Y", "Z">>
LowerCase == <<"a", "b", "c", "d", "e", "f", "g", "h", "i", "j", "k", "l", "m", "n", "o", "p", "q", "r", "s", "t", "u", "v", "w", "x", "y", "z">>

\* String.prototype.toLowerCase on the ASCII letters.
LowerChar(c) ==
  IF \E i \in 1..26 : UpperCase[i] = c
  THEN LowerCase[CHOOSE i \in 1..26 : UpperCase[i] = c]
  ELSE c
ToLowerCase(s) == [i \in 1..Len(s) |-> LowerChar(s[i])]

\* String.prototype.startsWith
StartsWith(s, prefix) == Len(s) >= Len(prefix) /\ SubSeq(s, 1, Len(prefix)) = prefix

\* Index of the first (last) element of s that is in the set cs, 0 when none.
FirstIndexIn(s, cs) ==
  IF \E i \in 1..Len(s) : s[i] \in cs
  THEN CHOOSE i \in 1..Len(s) : s[i] \in cs /\ \A j \in 1..(i - 1) : s[j] \notin cs
  ELSE 0
LastIndexIn(s, cs) ==
  IF \E i \in 1..Len(s) : s[i] \in cs
  THEN CHOOSE i \in 1..Len(s) : s[i] \in cs /\ \A j \in (i + 1)..Len(s) : s[j] \notin cs
  ELSE 0

\* ------------------------------------------------------------ new URL(url)
StrHttp == <<"h", "t", "t", "p">>
StrHttps == <<"h", "t", "t", "p", "s">>
\* Schemes whose URLs carry an authority the parser requires (ftp, ws, wss
\* are parsed alike; file has its own rules and no required host).
AuthoritySchemes == { StrHttp, StrHttps, <<"f", "t", "p">>, <<"w", "s">>, <<"w", "s", "s">> }
SchemeChars == Letters \cup Digits \cup {"+", "-", "."}
\* Code points the URL standard forbids in a host.
ForbiddenHostChars == {" ", "#", "/", "<", ">", "?", "@", "[", "\\", "]", "^", "|", "%"}

UrlFailure == [ok |-> FALSE, protocol |-> <<>>, hostname |-> <<>>]

\* The authority of a URL of a special scheme: what follows the scheme's
\* colon, without its leading slashes, up to the path, query or fragment.
DropSlashes(s) ==
  LET n == IF \E i \in 1..Len(s) : s[i] \notin {"/", "\\"}
           THEN (CHOOSE i \in 1..Len(s) :
                   s[i] \notin {"/", "\\"} /\ \A j \in 1..(i - 1) : s[j] \in {"/", "\\"}) - 1
           ELSE Len(s)
  IN SubSeq(s, n + 1, Len(s))
Authority(rest) ==
  LET a == DropSlashes(rest)
      e == FirstIndexIn(a, {"/", "\\", "?", "#"})
  IN IF e = 0 THEN a ELSE SubSeq(a, 1, e - 1)

\* new URL(url): failure (the constructor throws), or the protocol and the
\* hostname of the parsed URL. The scheme and the host are lower-cased, the
\* credentials and the port are not part of the hostname. Hosts are taken in
\* canonical form (dotted quads, names): the parser's rewriting of other
\* IPv4 spellings is not modelled.
ParseUrl(url) ==
  LET k == FirstIndexIn(url, {":"})
  IN IF k <= 1 \/ url[1] \notin Letters
        \/ \E i \in 2..(k - 1) : url[i] \notin SchemeChars
     THEN UrlFailure
     ELSE LET scheme == ToLowerCase(SubSeq(url, 1, k - 1))
              rest == SubSeq(url, k + 1, Len(url))
          IN IF scheme \notin AuthoritySchemes
             THEN [ok |-> TRUE, protocol |-> Append(scheme, ":"), hostname |-> <<>>]
             ELSE LET auth == Authority(rest)
                      at == LastIndexIn(auth, {"@"})
                      hostport == SubSeq(auth, at + 1, Len(auth))
                      colon == FirstIndexIn(hostport, {":"})
                      host == IF colon = 0 THEN hostport ELSE SubSeq(hostport, 1, colon - 1)
                      port == IF colon = 0 THEN <<>> ELSE SubSeq(hostport, colon + 1, Len(hostport))
                  IN IF \/ host = <<>>
                        \/ \E i \in 1..Len(host) : host[i] \in ForbiddenHostChars
                        \/ \E i \in 1..Len(port) : port[i] \notin Digits
                     THEN UrlFailure
                     ELSE [ok |-> TRUE, protocol |-> Append(scheme, ":"),
                           hostname |-> ToLowerCase(host)]

\* ------------------------------------------------------------ isValidImageUrl
\* The blockedPatterns, each as RegExp.test(hostname).
MatchLocalhost(h) == ToLowerCase(h) = <<"l", "o", "c", "a", "l", "h", "o", "s", "t">>
Match127(h) == StartsWith(h, <<"1", "2", "7", ".">>)
Match169(h) == StartsWith(h, <<"1", "6", "9", ".", "2", "5", "4", ".">>)
Match192(h) == StartsWith(h, <<"1", "9", "2", ".", "1", "6", "8", ".">>)
Match10(h) == StartsWith(h, <<"1", "0", ".">>)

\* Mutant: the last alternative of the group, 3[01], is missing.
Match172To29(h) ==
  /\ StartsWith(h, <<"1", "7", "2", ".">>)
  /\ Len(h) >= 7
  /\ \/ h[5] = "1" /\ h[6] \in {"6", "7", "8", "9"}
     \/ h[5] = "2" /\ h[6] \in Digits
  /\ h[7] = "."

\* /^172\.(1[6-9]|2[0-9]|3[01])\./
Match172(h) ==
  /\ StartsWith(h, <<"1", "7", "2", ".">>)
  /\ Len(h) >= 7
  /\ \/ h[5] = "1" /\ h[6] \in {"6", "7", "8", "9"}
     \/ h[5] = "2" /\ h[6] \in Digits
     \/ h[5] = "3" /\ h[6] \in {"0", "1"}
  /\ h[7] = "."

BlockedHost(h) ==
  \/ MatchLocalhost(h) \/ Match127(h) \/ Match169(h)
  \/ Match192(h) \/ Match10(h) \/ Match172(h)

\* isValidImageUrl(url)
IsValidImageUrl(url) ==
  LET parsed == ParseUrl(url)
  IN IF ~parsed.ok THEN FALSE
     ELSE IF parsed.protocol \notin {Append(StrHttp, ":"), Append(StrHttps, ":")} THEN FALSE
     ELSE ~BlockedHost(parsed.hostname)

\* ------------------------------------------------------------ URL inputs
\* A URL written from its parts; the parts are kept beside the string.
BuildUrl(scheme, userinfo, host, port, path) ==
  scheme \o <<":", "/", "/">> \o (IF userinfo = <<>> THEN <<>> ELSE Append(userinfo, "@"))
    \o host \o (IF port = <<>> THEN <<>> ELSE <<":">> \o port) \o path
UrlOf(scheme, userinfo, host, port, path) ==
  [str |-> BuildUrl(scheme, userinfo, host, port, path), wellFormed |-> TRUE,
   scheme |-> scheme, host |-> host]
\* A string that is no URL, or a URL without an authority.
RawUrl(str, wellFormed, scheme) ==
  [str |-> str, wellFormed |-> wellFormed, scheme |-> scheme, host |-> <<>>]

SampleHosts ==
  { <<"l", "o", "c", "a", "l", "h", "o", "s", "t">>, <<"L", "o", "c", "a", "l", "H", "o", "s", "t">>, <<"l", "o", "c", "a", "l", "h", "o", "s", "t", ".", "e", "x", "a", "m", "p", "l", "e", ".", "c", "o", "m">>, <<"m", "y", "l", "o", "c", "a", "l", "h", "o", "s", "t">>,
    <<"1", "2", "7", ".", "0", ".", "0", ".", "1">>, <<"1", "2", "7", "0", ".", "e", "x", "a", "m", "p", "l", "e", ".", "c", "o", "m">>, <<"1", "2", ".", "7", ".", "0", ".", "1">>,
    <<"1", "6", "9", ".", "2", "5", "4", ".", "1", "6", "9", ".", "2", "5", "4">>, <<"1", "6", "9", ".", "2", "5", ".", "4", ".", "1">>,
    <<"1", "9", "2", ".", "1", "6", "8", ".", "1", ".", "1">>, <<"1", "9", "2", ".", "1", "6", ".", "8", ".", "1">>,
    <<"1", "0", ".", "0", ".", "0", ".", "1">>, <<"1", "0", "0", ".", "0", ".", "0", ".", "1">>, <<"1", "1", "0", ".", "0", ".", "0", ".", "1">>,
    <<"1", "7", "2", ".", "1", "5", ".", "0", ".", "1">>, <<"1", "7", "2", ".", "1", "6", ".", "0", ".", "1">>, <<"1", "7", "2", ".", "2", "0", ".", "0", ".", "1">>, <<"1", "7", "2", ".", "3", "1", ".", "0", ".", "1">>,
    <<"1", "7", "2", ".", "3", "2", ".", "0", ".", "1">>, <<"1", "7", "2", ".", "1", "6", "0", ".", "0", ".", "1">>, <<"1", "7", "2", ".", "2", ".", "0", ".", "1">>, <<"1", "7", "2", ".", "1", "6", ".", "e", "x", "a", "m", "p", "l", "e", ".", "c", "o", "m">>, <<"1", "2", "7", ".", "e", "x", "a", "m", "p", "l", "e", ".", "c", "o", "m">>,
    <<"e", "x", "a", "m", "p", "l", "e", ".", "c", "o", "m">>, <<"h", "t", "t", "p", "b", "i", "n", ".", "o", "r", "g">> }
SampleSchemes == { StrHttp, StrHttps, <<"H", "T", "T", "P">>, <<"f", "t", "p">>, <<"l", "d", "a", "p">>, <<"g", "o", "p", "h", "e", "r">> }

UrlSamples ==
  { UrlOf(sch, <<>>, h, <<>>, <<"/", "x">>) : sch \in SampleSchemes, h \in SampleHosts }
  \cup { UrlOf(StrHttp, <<>>, <<"l", "o", "c", "a", "l", "h", "o", "s", "t">>, <<"2", "2">>, <<>>),
         UrlOf(StrHttp, <<>>, <<"1", "2", "7", ".", "0", ".", "0", ".", "1">>, <<"8", "0", "8", "0">>, <<>>),
         UrlOf(StrHttps, <<>>, <<"e", "x", "a", "m", "p", "l", "e", ".", "c", "o", "m">>, <<"8", "4", "4", "3">>, <<"/", "i", "m", "a", "g", "e", ".", "j", "p", "g">>),
         UrlOf(StrHttp, <<"1", "2", "7", ".", "0", ".", "0", ".", "1">>, <<"e", "x", "a", "m", "p", "l", "e", ".", "c", "o", "m">>, <<>>, <<"/", "x">>),
         UrlOf(StrHttp, <<"u", "s", "e", "r">>, <<"1", "0", ".", "0", ".", "0", ".", "1">>, <<>>, <<"/", "x">>),
         UrlOf(StrHttp, <<>>, <<"1", "6", "9", ".", "2", "5", "4", ".", "1", "6", "9", ".", "2", "5", "4">>, <<>>, <<"/", "l", "a", "t", "e", "s", "t", "/", "m", "e", "t", "a", "-", "d", "a", "t", "a", "/">>),
         RawUrl(<<"n", "o", "t", "-", "a", "-", "u", "r", "l">>, FALSE, <<>>),
         RawUrl(<<>>, FALSE, <<>>),
         RawUrl(<<"/", "/", "e", "x", "a", "m", "p", "l", "e", ".", "c", "o", "m", "/", "x">>, FALSE, <<>>),
         RawUrl(<<"h", "t", "t", "p", ":", "/", "/">>, FALSE, <<>>),
         RawUrl(<<"h", "t", "t", "p", ":", "/", "/", "e", "x", "a", " ", "m", "p", "l", "e", ".", "c", "o", "m", "/", "x">>, FALSE, <<>>),
         RawUrl(<<"h", "t", "t", "p", ":", "/", "/", "e", "x", "a", "m", "p", "l", "e", ".", "c", "o", "m", ":", "p", "o", "r", "t", "/", "x">>, FALSE, <<>>),
         RawUrl(<<"f", "i", "l", "e", ":", "/", "/", "/", "e", "t", "c", "/", "p", "a", "s", "s", "w", "d">>, TRUE, <<"f", "i", "l", "e">>),
         RawUrl(<<"j", "a", "v", "a", "s", "c", "r", "i", "p", "t", ":", "a", "l", "e", "r", "t", "(", "1", ")">>, TRUE, <<"j", "a", "v", "a", "s", "c", "r", "i", "p", "t">>) }

\* ------------------------------------------------------------ detectImageFormat
\* A buffer is a sequence of bytes.
NoFormat == [extension |-> <<>>, mimeType |-> "none"]
Format(extension, mimeType) == [extension |-> extension, mimeType |-> mimeType]

\* The bytes of '<svg' and of the two spellings of the SVG namespace attribute.
SvgTag == <<60, 115, 118, 103>>
SvgNamespaceDouble == <<120, 109, 108, 110, 115, 61, 34, 104, 116, 116, 112, 58, 47, 47, 119, 119, 119, 46, 119, 51, 46, 111, 114, 103, 47, 50, 48, 48, 48, 47, 115, 118, 103, 34>>
SvgNamespaceSingle == <<120, 109, 108, 110, 115, 61, 39, 104, 116, 116, 112, 58, 47, 47, 119, 119, 119, 46, 119, 51, 46, 111, 114, 103, 47, 50, 48, 48, 48, 47, 115, 118, 103, 39>>
\* detectImageFormat reads the text of at most this many leading bytes.
SvgScanWindow == 1000

IsJpeg(buffer) ==
  Len(buffer) >= 3 /\ buffer[1] = 255 /\ buffer[2] = 216 /\ buffer[3] = 255
IsPng(buffer) ==
  /\ Len(buffer) >= 8
  /\ buffer[1] = 137 /\ buffer[2] = 80 /\ buffer[3] = 78 /\ buffer[4] = 71
  /\ buffer[5] = 13 /\ buffer[6] = 10 /\ buffer[7] = 26 /\ buffer[8] = 10
\* Mutant: the GIF version bytes are not looked at.
IsGifAnyVersion(buffer) ==
  /\ Len(buffer) >= 6
  /\ buffer[1] = 71 /\ buffer[2] = 73 /\ buffer[3] = 70 /\ buffer[4] = 56

IsGif(buffer) ==
  /\ Len(buffer) >= 6
  /\ buffer[1] = 71 /\ buffer[2] = 73 /\ buffer[3] = 70 /\ buffer[4] = 56
  /\ (buffer[5] = 55 \/ buffer[5] = 57) /\ buffer[6] = 97

\* Mutant: every RIFF container is taken for WebP.
IsWebpAnyRiff(buffer) ==
  /\ Len(buffer) >= 12
  /\ buffer[1] = 82 /\ buffer[2] = 73 /\ buffer[3] = 70 /\ buffer[4] = 70

IsWebp(buffer) ==
  /\ Len(buffer) >= 12
  /\ buffer[1] = 82 /\ buffer[2] = 73 /\ buffer[3] = 70 /\ buffer[4] = 70
  /\ buffer[9] = 87 /\ buffer[10] = 69 /\ buffer[11] = 66 /\ buffer[12] = 80
IsBmp(buffer) == Len(buffer) >= 2 /\ buffer[1] = 66 /\ buffer[2] = 77
IsIco(buffer) ==
  Len(buffer) >= 4 /\ buffer[1] = 0 /\ buffer[2] = 0 /\ buffer[3] = 1 /\ buffer[4] = 0
IsTiffIntel(buffer) ==
  Len(buffer) >= 4 /\ buffer[1] = 73 /\ buffer[2] = 73 /\ buffer[3] = 42 /\ buffer[4] = 0
IsTiffMotorola(buffer) ==
  Len(buffer) >= 4 /\ buffer[1] = 77 /\ buffer[2] = 77 /\ buffer[3] = 0 /\ buffer[4] = 42
\* buffer.toString('utf8', 0, Math.min(buffer.length, 1000)) and the three
\* includes: the markers are ASCII, so they occur in the text exactly where
\* their bytes occur in the window.
IsSvg(buffer) ==
  LET textContent == SubSeq(buffer, 1, Min(Len(buffer), SvgScanWindow))
  IN /\ Includes(textContent, SvgTag)
     /\ \/ Includes(textContent, SvgNamespaceDouble)
        \/ Includes(textContent, SvgNamespaceSingle)

\* detectImageFormat(buffer): the checks in the order of the code.
DetectImageFormat(buffer) ==
  IF IsJpeg(buffer) THEN Format(<<"j", "p", "g">>, "image/jpeg")
  ELSE IF IsPng(buffer) THEN Format(<<"p", "n", "g">>, "image/png")
  ELSE IF IsGif(buffer) THEN Format(<<"g", "i", "f">>, "image/gif")
  ELSE IF IsWebp(buffer) THEN Format(<<"w", "e", "b", "p">>, "image/webp")
  ELSE IF IsBmp(buffer) THEN Format(<<"b", "m", "p">>, "image/bmp")
  ELSE IF IsIco(buffer) THEN Format(<<"i", "c", "o">>, "image/x-icon")
  ELSE IF IsTiffIntel(buffer) THEN Format(<<"t", "i", "f", "f">>, "image/tiff")
  ELSE IF IsTiffMotorola(buffer) THEN Format(<<"t", "i", "f", "f">>, "image/tiff")
  ELSE IF IsSvg(buffer) THEN Format(<<"s", "v", "g">>, "image/svg+xml")
  ELSE NoFormat

\* ------------------------------------------------------------ response bodies
\* n bytes of padding (spaces).
Padding(n) == [i \in 1..n |-> 32]
SvgDocument == SvgTag \o <<32>> \o SvgNamespaceDouble \o <<62>>
\* The bodies a server answers a download with.
SampleBuffers ==
  { <<255, 216, 255, 224, 0, 16>>, <<255, 216, 255>>, <<255, 216>>, <<255, 216, 0, 255>>,
    <<137, 80, 78, 71, 13, 10, 26, 10, 0, 0>>, <<137, 80, 78, 71, 13, 10, 26>>,
    <<137, 80, 78, 71, 13, 10, 26, 11>>,
    <<71, 73, 70, 56, 55, 97, 1>>, <<71, 73, 70, 56, 57, 97>>, <<71, 73, 70, 56, 56, 97>>,
    <<71, 73, 70, 56, 57>>,
    <<82, 73, 70, 70, 1, 2, 3, 4, 87, 69, 66, 80, 86>>,
    <<82, 73, 70, 70, 1, 2, 3, 4, 87, 65, 86, 69>>,
    <<82, 73, 70, 70, 1, 2, 3, 4, 87, 69, 66>>,
    <<66, 77, 1, 2>>, <<66>>, <<66, 77>> \o SvgDocument,
    <<0, 0, 1, 0, 1>>, <<0, 0, 2, 0>>,
    <<73, 73, 42, 0>>, <<77, 77, 0, 42>>, <<73, 73, 0, 42>>, <<77, 77, 42, 0>>,
    SvgDocument,
    SvgTag \o <<32>> \o SvgNamespaceSingle \o <<62>>,
    <<60, 63, 120, 109, 108, 32, 118, 101, 114, 115, 105, 111, 110, 61, 34, 49, 46, 48, 34, 63, 62>> \o SvgDocument,
    <<60, 104, 116, 109, 108, 62, 60, 98, 111, 100, 121, 62>> \o SvgDocument,
    SvgTag \o <<62>>,
    <<60, 103>> \o <<32>> \o SvgNamespaceDouble \o <<62>>,
    Padding(SvgScanWindow) \o SvgDocument,
    Padding(SvgScanWindow - 10) \o SvgDocument,
    Padding(SvgScanWindow - Len(SvgDocument)) \o SvgDocument,
    <<>>, <<104, 101, 108, 108, 111>> }

\* ------------------------------------------------------------ paths
\* A canonical absolute path is the sequence of its components ("/" is <<>>).
\* The home directory and the working directory of the process.
HomeDir == << <<"h", "o", "m", "e">>, <<"u", "s", "e", "r">> >>
WorkDir == << <<"w", "o", "r", "k">> >>

\* The components of a path string: the runs between its "/" separators.
RECURSIVE SplitPath(_)
SplitPath(s) ==
  LET k == FirstIndexIn(s, {"/"})
  IN IF k = 0 THEN <<s>>
     ELSE <<SubSeq(s, 1, k - 1)>> \o SplitPath(SubSeq(s, k + 1, Len(s)))

\* path.normalize on components under an absolute root: empty and "."
\* components vanish, ".." removes the component before it.
RECURSIVE NormalizeOnto(_, _)
NormalizeOnto(done, todo) ==
  IF todo = <<>> THEN done
  ELSE LET c == Head(todo)
       IN IF c = <<>> \/ c = <<".">> THEN NormalizeOnto(done, Tail(todo))
          ELSE IF c = <<".", ".">>
          THEN NormalizeOnto(IF done = <<>> THEN <<>> ELSE SubSeq(done, 1, Len(done) - 1),
                             Tail(todo))
          ELSE NormalizeOnto(Append(done, c), Tail(todo))

\* path.resolve(p): relative paths are taken from the working directory.
PathResolve(p) ==
  IF StartsWith(p, <<"/">>) THEN NormalizeOnto(<<>>, SplitPath(p))
  ELSE NormalizeOnto(WorkDir, SplitPath(p))
\* path.join(dir, name) for a canonical absolute dir.
PathJoin(dir, name) == NormalizeOnto(dir, SplitPath(name))

\* The string of a canonical absolute path.
RECURSIVE PathString(_)
PathString(path) ==
  IF path = <<>> THEN <<"/">>
  ELSE IF Len(path) = 1 THEN <<"/">> \o path[1]
  ELSE PathString(SubSeq(path, 1, Len(path) - 1)) \o <<"/">> \o path[Len(path)]

\* The path and all the directories above it.
Ancestors(path) == { SubSeq(path, 1, n) : n \in 0..Len(path) }

\* ------------------------------------------------------------ sanitizeFilePath
DangerousChars == {"<", ">", ":", "\"", "|", "?", "*"}

\* Mutant: the colon is not among the replaced characters.
SafeNameKeepColon(filename) ==
  [i \in 1..Len(filename) |->
     IF filename[i] \in DangerousChars \ {":"} THEN "_" ELSE filename[i]]

\* filename.replace(/[<>:"|?*]/g, '_')
SafeName(filename) ==
  [i \in 1..Len(filename) |-> IF filename[i] \in DangerousChars THEN "_" ELSE filename[i]]

\* Mutant: the backslash is not looked for.
HasTraversalNoBackslash(filename) ==
  Includes(filename, <<".", ".">>) \/ Includes(filename, <<"/">>)

\* filename.includes('..') || filename.includes('/') || filename.includes('\\')
HasTraversal(filename) ==
  \/ Includes(filename, <<".", ".">>)
  \/ Includes(filename, <<"/">>)
  \/ Includes(filename, <<"\\">>)

\* sanitizeFilePath(outputPath, filename): it throws, or returns fullPath.
SanitizeFilePath(outputPath, filename) ==
  IF HasTraversal(filename) THEN [ok |-> FALSE, fullPath |-> <<>>]
  ELSE LET safePath == PathResolve(outputPath)
           fullPath == PathJoin(safePath, SafeName(filename))
       IN IF ~StartsWith(PathString(fullPath), PathString(safePath))
          THEN [ok |-> FALSE, fullPath |-> <<>>]
          ELSE [ok |-> TRUE, fullPath |-> fullPath]

\* ------------------------------------------------------------ downloadImage, its pure parts
\* Mutant: the caller's extension is kept.
StripExtensionKeep(baseFilename) == baseFilename

\* baseFilename.replace(/\.[^/.]+$/, ''): the last dot and what follows it
\* go, when at least one character follows and none of them is a "/".
StripExtension(baseFilename) ==
  LET d == LastIndexIn(baseFilename, {"."})
  IN IF d > 0 /\ d < Len(baseFilename)
        /\ \A i \in (d + 1)..Len(baseFilename) : baseFilename[i] # "/"
     THEN SubSeq(baseFilename, 1, d - 1)
     ELSE baseFilename

\* `${cleanBaseFilename}.${detectedFormat.extension}`
FinalFilename(baseFilename, format) ==
  StripExtension(baseFilename) \o <<".">> \o format.extension

\* outputPath.startsWith('~') ? path.join(os.homedir(), outputPath.slice(1)) : outputPath
\* as the directory it names.
ExpandedOutputDir(outputPath) ==
  IF StartsWith(outputPath, <<"~">>)
  THEN PathJoin(HomeDir, SubSeq(outputPath, 2, Len(outputPath)))
  ELSE PathResolve(outputPath)
\* The same, as the string handed to sanitizeFilePath.
ExpandedOutputPath(outputPath) ==
  IF StartsWith(outputPath, <<"~">>) THEN PathString(ExpandedOutputDir(outputPath))
  ELSE outputPath

\* Mutant: the URL is not validated.
UrlGateOpen(url) == TRUE

\* if (!isValidImageUrl(imageUrl)) throw ...: does the invocation go on?
UrlGate(url) == IsValidImageUrl(url)

\* ------------------------------------------------------------ download inputs
\* The grave accent U+0060, named because a string cannot hold it.
Backtick == "U+0060"
\* An output directory as the caller writes it, with the directory it names.
OutputPathSamples ==
  { [str |-> <<".", "/", "t", "e", "s", "t", "s", "/", "f", "i", "x", "t", "u", "r", "e", "s", "/", "d", "o", "w", "n", "l", "o", "a", "d", "s">>,
     canonical |-> << <<"w", "o", "r", "k">>, <<"t", "e", "s", "t", "s">>, <<"f", "i", "x", "t", "u", "r", "e", "s">>, <<"d", "o", "w", "n", "l", "o", "a", "d", "s">> >>],
    [str |-> <<"/", "t", "m", "p", "/", "a", "/", ".", ".", "/", "o", "u", "t", "/">>, canonical |-> << <<"t", "m", "p">>, <<"o", "u", "t">> >>],
    [str |-> <<"~", "/", "P", "i", "c", "t", "u", "r", "e", "s">>, canonical |-> << <<"h", "o", "m", "e">>, <<"u", "s", "e", "r">>, <<"P", "i", "c", "t", "u", "r", "e", "s">> >>] }
BaseFilenameSamples ==
  { <<"t", "e", "s", "t", ".", "j", "p", "g">>, <<"p", "h", "o", "t", "o">>, <<"t", "e", "s", "t", ":", "i", "m", "a", "g", "e", "?", ".", "j", "p", "g">>, <<"a", ".", "b", ".", "p", "n", "g">>, <<".", "h", "i", "d", "d", "e", "n">>,
    <<"<", "x", ">", "|", "\"", "*", ".", "g", "i", "f">>, <<"p", "h", "o", "t", "o", ".">>, <<>>,
    <<".", ".", "/", "t", "e", "s", "t", ".", "j", "p", "g">>, <<"a", "/", "b", ".", "p", "n", "g">>, <<"a", "\\", "b", ".", "p", "n", "g">>, <<"x", ".", ".", "y", ".", "p", "n", "g">>, <<".", ".">>, <<"a", ".", ".", "b">>, <<".", ".", "x">>,
    <<".", ".", "\\", ".", ".", "\\", "w", "i", "n", "d", "o", "w", "s", "\\", "s", "y", "s", "t", "e", "m", "3", "2", "\\", "c", "o", "n", "f", "i", "g", "\\", "s", "a", "m">> }
\* The URLs downloads are asked for.
DownloadUrlSamples ==
  { UrlOf(StrHttps, <<>>, <<"h", "t", "t", "p", "b", "i", "n", ".", "o", "r", "g">>, <<>>, <<"/", "i", "m", "a", "g", "e", "/", "j", "p", "e", "g">>),
    UrlOf(StrHttp, <<>>, <<"e", "x", "a", "m", "p", "l", "e", ".", "c", "o", "m">>, <<>>, <<"/", "i", "m", "a", "g", "e", ".", "j", "p", "g">>),
    UrlOf(StrHttp, <<>>, <<"1", "6", "9", ".", "2", "5", "4", ".", "1", "6", "9", ".", "2", "5", "4">>, <<>>, <<"/", "x">>),
    UrlOf(StrHttp, <<>>, <<"l", "o", "c", "a", "l", "h", "o", "s", "t">>, <<"2", "2">>, <<>>),
    UrlOf(StrHttps, <<>>, <<"1", "7", "2", ".", "3", "1", ".", "0", ".", "1">>, <<>>, <<"/", "x">>),
    RawUrl(<<"f", "i", "l", "e", ":", "/", "/", "/", "e", "t", "c", "/", "p", "a", "s", "s", "w", "d">>, TRUE, <<"f", "i", "l", "e">>),
    RawUrl(<<"n", "o", "t", "-", "a", "-", "u", "r", "l">>, FALSE, <<>>),
    UrlOf(StrHttp, <<>>, <<"e", "x", "a", "m", "p", "l", "e", ".", "c", "o", "m">>, <<>>, <<"/", "i", "m", "a", "g", "e", ".", "j", "p", "g", "\"", ";", " ", "r", "m", " ", "-", "r", "f", " ", "/", ";", " ", "#">>),
    UrlOf(StrHttp, <<>>, <<"e", "x", "a", "m", "p", "l", "e", ".", "c", "o", "m">>, <<>>, <<"/", "i", "m", "a", "g", "e", ".", "j", "p", "g", " ", "&", "&", " ", "c", "a", "t", " ", "/", "e", "t", "c", "/", "p", "a", "s", "s", "w", "d">>),
    UrlOf(StrHttp, <<>>, <<"e", "x", "a", "m", "p", "l", "e", ".", "c", "o", "m">>, <<>>, <<"/", "i", "m", "a", "g", "e", ".", "j", "p", "g", ";", " ", "c", "u", "r", "l", " ", "h", "t", "t", "p", ":", "/", "/", "e", "v", "i", "l", ".", "c", "o", "m", "/", "s", "t", "e", "a", "l">>),
    UrlOf(StrHttp, <<>>, <<"e", "x", "a", "m", "p", "l", "e", ".", "c", "o", "m">>, <<>>, <<"/", "i", "m", "a", "g", "e", ".", "j", "p", "g", Backtick, "w", "h", "o", "a", "m", "i", Backtick>>) }

\* ------------------------------------------------------------ downloadImage, its state
\* What a downloadImage invocation throws.
NoThrow == "none"
UnsafeUrlError == "Invalid or unsafe URL"
FetchError == "request failed"
UndetectedFormatError == "Unable to detect image format from downloaded data"
TraversalError == "Invalid file path: directory traversal detected"
WriteError == "write failed"

\* The directories that exist whatever the program does.
SystemDirs == Ancestors(HomeDir) \cup Ancestors(WorkDir) \cup { << <<"t", "m", "p">> >> }
\* A file system: the directories and the files, by canonical path.
EmptyFs == [dirs |-> SystemDirs, files |-> {}]
\* fs.existsSync(path)
ExistsSync(f, path) == path \in f.dirs \/ \E file \in f.files : file.path = path
\* fs.mkdirSync(path, { recursive: true })
MkdirRecursive(f, path) == [f EXCEPT !.dirs = @ \cup Ancestors(path)]
\* The file system once `content` is what the file at `path` holds.
WithFile(f, path, content) ==
  [f EXCEPT !.files = { file \in @ : file.path # path }
                        \cup {[path |-> path, content |-> content]}]
\* How fs.writeFileSync can end: the whole buffer is in the file; it throws
\* before the file is created; it throws after a part of the buffer went in.
WriteOutcomes == {"written", "failed", "failedPartway"}
\* The bytes a write that failed partway leaves.
PartOf(buffer) == SubSeq(buffer, 1, Len(buffer) \div 2)

IdleDownload ==
  [pc |-> "idle", url |-> RawUrl(<<>>, FALSE, <<>>), outputPath |-> <<>>,
   baseFilename |-> <<>>, buffer |-> <<>>, format |-> NoFormat,
   finalFilename |-> <<>>, fullPath |-> <<>>, thrown |-> NoThrow,
   write |-> "none", fsBefore |-> EmptyFs]


\* ------------------------------------------------------------ invocations
Limits == 1..MaxLimit

IdleCall ==
  [pc |-> "idle", limit |-> 0, attempts |-> <<>>, req |-> NoRequest,
   errs |-> <<>>, resp |-> NoOutcome, result |-> <<>>, thrown |-> NoError,
   overlapped |-> FALSE]

InFlight(c) == c.pc \in {"await1", "await2"}
Finished(c) == c.pc \in {"returned", "threw"}

TypeOK ==
  /\ apiConfig \in ApiConfig
  /\ apiState.currentProvider \in ApiProvider
  /\ apiState.googleDisabled \in BOOLEAN
  /\ apiState.serpDisabled \in BOOLEAN
  /\ \A s \in Slots : calls[s].pc \in {"idle", "await1", "await2", "returned", "threw"}
  /\ failedFrom \in ApiProvider \cup {"none"}

\* Module load: apiConfig = {}, currentProvider = google, nothing disabled.
InitGateway ==
  /\ apiConfig = [googleApiKey |-> "undefined", googleCseId |-> "undefined",
                  serpApiKey |-> "undefined"]
  /\ apiState = [currentProvider |-> GOOGLE_CUSTOM_SEARCH, googleDisabled |-> FALSE,
                 serpDisabled |-> FALSE]
  /\ calls = [s \in Slots |-> IdleCall]
  /\ lastInit = [result |-> "none", provider |-> "none"]
  /\ failedFrom = "none"

\* The other components at rest.
IdleUrlCheck == [pc |-> "idle", url |-> RawUrl(<<>>, FALSE, <<>>), result |-> FALSE]
\* An optional number of a search result: absent, or a value.
Absent == [present |-> FALSE, value |-> 0]
Known(n) == [present |-> TRUE, value |-> n]
\* The fields of an ImageSearchResult calculateRelevanceScore reads;
\* is_product is "true", "false" or "undefined".
Image(title, width, height, is_product) ==
  [title |-> title, width |-> width, height |-> height, is_product |-> is_product]
IdleScore ==
  [pc |-> "idle", image |-> Image(<<>>, Absent, Absent, "undefined"),
   criteria |-> <<>>, score |-> 0]
\* analyze_images before the call.
IdleAnalyze == [pc |-> "idle", searchResults |-> <<>>, criteria |-> <<>>, output |-> <<>>]

Init ==
  /\ InitGateway
  /\ dl = IdleDownload /\ fs = EmptyFs /\ fetches = <<>>
  /\ sc = IdleScore /\ an = IdleAnalyze
  /\ uv = IdleUrlCheck

\* initializeApiConfig() with the environment holding `env`. It runs to
\* completion between invocations.
InitializeApiConfig(env) ==
  /\ \A s \in Slots : calls[s].pc = "idle"
  /\ apiConfig' = env
  /\ LET sel == SelectProvider(env)
     IN IF sel = "throw"
        THEN /\ apiState' = apiState
             /\ lastInit' = [result |-> "threw", provider |-> "none"]
        ELSE /\ apiState' = [apiState EXCEPT !.currentProvider = sel]
             /\ lastInit' = [result |-> "ok", provider |-> apiState'.currentProvider]
  /\ failedFrom' = "none"
  /\ UNCHANGED calls
  /\ UNCHANGED <<downloadVars, scoreVars, urlVars>>

\* searchImages(query, limit) up to its first suspend point: the call of the
\* current provider's client. Invocations are dispatched one at a time.
SearchImages(s, limit) ==
  /\ \A t \in Slots : calls[t].pc = "idle"
  /\ LET p == apiState.currentProvider
     IN calls' = [calls EXCEPT ![s] =
          [IdleCall EXCEPT !.pc = "await1", !.limit = limit, !.attempts = <<p>>,
                           !.req = Request(p, apiConfig, limit)]]
  /\ UNCHANGED <<apiConfig, apiState, lastInit, failedFrom>>
  /\ UNCHANGED <<downloadVars, scoreVars, urlVars>>

\* The first attempt settles with outcome o: return its results, or run the
\* catch block (classify, switch, start the retry) up to the next suspend point.
FirstAttemptSettles(s, o) ==
  LET c == calls[s]
      r == ProviderResult(c.req, o, c.limit)
      cls == IsRateLimitError(r.error)
      sw == SwitchApiProvider(apiState, apiConfig)
  IN
  /\ c.pc = "await1"
  /\ o \in SettleOutcomes(c.req)
  /\ IF r.ok
     THEN /\ calls' = [calls EXCEPT ![s] =
                 [c EXCEPT !.pc = "returned", !.resp = o, !.result = r.value]]
          /\ UNCHANGED <<apiState, failedFrom>>
     ELSE IF cls = "TypeError"
     THEN /\ calls' = [calls EXCEPT ![s] =
                 [c EXCEPT !.pc = "threw", !.errs = <<r.error>>,
                           !.thrown = TypeErrorValue]]
          /\ UNCHANGED <<apiState, failedFrom>>
     ELSE IF cls = "true" /\ sw.switched
     THEN /\ apiState' = sw.state
          /\ failedFrom' = apiState.currentProvider
          /\ calls' = [calls EXCEPT ![s] =
                 [c EXCEPT !.pc = "await2", !.errs = <<r.error>>,
                           !.attempts = Append(c.attempts, sw.state.currentProvider),
                           !.req = Request(sw.state.currentProvider, apiConfig, c.limit)]]
     ELSE /\ calls' = [calls EXCEPT ![s] =
                 [c EXCEPT !.pc = "threw", !.errs = <<r.error>>, !.thrown = r.error]]
          /\ UNCHANGED <<apiState, failedFrom>>
  /\ UNCHANGED <<apiConfig, lastInit>>
  /\ UNCHANGED <<downloadVars, scoreVars, urlVars>>

\* The retry on the alternate provider settles: return its results or throw
\* the fallback error.
RetrySettles(s, o) ==
  LET c == calls[s]
      r == ProviderResult(c.req, o, c.limit)
  IN
  /\ c.pc = "await2"
  /\ o \in SettleOutcomes(c.req)
  /\ IF r.ok
     THEN calls' = [calls EXCEPT ![s] =
                 [c EXCEPT !.pc = "returned", !.resp = o, !.result = r.value]]
     ELSE calls' = [calls EXCEPT ![s] =
                 [c EXCEPT !.pc = "threw", !.errs = Append(c.errs, r.error),
                           !.thrown = r.error]]
  /\ UNCHANGED <<apiConfig, apiState, lastInit, failedFrom>>
  /\ UNCHANGED <<downloadVars, scoreVars, urlVars>>

\* The caller takes the invocation's result or error; the slot is free again.
Complete(s) ==
  /\ Finished(calls[s])
  /\ calls' = [calls EXCEPT ![s] = IdleCall]
  /\ UNCHANGED <<apiConfig, apiState, lastInit, failedFrom>>
  /\ UNCHANGED <<downloadVars, scoreVars, urlVars>>

Next ==
  \/ \E env \in ApiConfig : InitializeApiConfig(env)
  \/ \E s \in Slots, limit \in Limits : SearchImages(s, limit)
  \/ \E s \in Slots : \E o \in SettleOutcomes(calls[s].req) : FirstAttemptSettles(s, o)
  \/ \E s \in Slots : \E o \in SettleOutcomes(calls[s].req) : RetrySettles(s, o)
  \/ \E s \in Slots : Complete(s)

Spec == Init /\ [][Next]_vars

\* ------------------------------------------------------------ overlapping invocations
\* searchImages is async: a second invocation can be dispatched while the
\* first awaits its response. `overlapped` records, for an invocation, that
\* another one awaited the same provider's first response at the same time.
SearchImagesOverlapping(s, limit) ==
  /\ calls[s].pc = "idle"
  /\ LET p == apiState.currentProvider
         Waiting(t) == t # s /\ calls[t].pc = "await1" /\ calls[t].attempts = <<p>>
     IN calls' = [t \in Slots |->
          IF t = s
          THEN [IdleCall EXCEPT !.pc = "await1", !.limit = limit, !.attempts = <<p>>,
                                !.req = Request(p, apiConfig, limit),
                                !.overlapped = \E u \in Slots : Waiting(u)]
          ELSE IF Waiting(t) THEN [calls[t] EXCEPT !.overlapped = TRUE]
          ELSE calls[t]]
  /\ UNCHANGED <<apiConfig, apiState, lastInit, failedFrom>>
  /\ UNCHANGED <<downloadVars, scoreVars, urlVars>>

\* The answers followed up when invocations overlap: one result, a
\* rate-limit response, a response that is no rate limit, no response.
OverlapOutcomes(req) ==
  IF ~req.sent THEN {NoOutcome}
  ELSE { [ok |-> TRUE, hasField |-> TRUE, items |-> BackendItems(req.provider, 1, "asc"),
          err |-> NoError],
         [ok |-> FALSE, hasField |-> FALSE, items |-> <<>>, err |-> HttpError(429, NoData)],
         [ok |-> FALSE, hasField |-> FALSE, items |-> <<>>, err |-> HttpError(500, NoData)],
         [ok |-> FALSE, hasField |-> FALSE, items |-> <<>>, err |-> NetworkError] }

NextOverlap ==
  \/ \E env \in ApiConfig : InitializeApiConfig(env)
  \/ \E s \in Slots : SearchImagesOverlapping(s, 1)
  \/ \E s \in Slots : \E o \in OverlapOutcomes(calls[s].req) : FirstAttemptSettles(s, o)
  \/ \E s \in Slots : \E o \in OverlapOutcomes(calls[s].req) : RetrySettles(s, o)
  \/ \E s \in Slots : Complete(s)

SpecOverlap == Init /\ [][NextOverlap]_vars

\* ================================================================ claims
\* The id a raw backend item carries (GoogleImageItem.link, or `original`).
RawId(item) == IF "link" \in DOMAIN item THEN item.link ELSE item.original

\* C1: when the first attempt of a searchImages invocation fails with a
\* rate-limit-classified error and the alternate provider has complete
\* credentials and is not disabled, the step that handles the failure flags
\* the current provider disabled, makes the alternate current and sends one
\* retry to it; an invocation that returns after a retry returns the
\* alternate provider's (truncated) results.
C1_AltAvailable(alt) ==
  IF alt = SERP_API
  THEN apiConfig.serpApiKey = "key" /\ ~apiState.serpDisabled
  ELSE apiConfig.googleApiKey = "key" /\ apiConfig.googleCseId = "key"
       /\ ~apiState.googleDisabled
C1_FailoverStep ==
  \A s \in Slots :
    LET c == calls[s]
        d == calls'[s]
        first == apiState.currentProvider
        alt == Other(first)
    IN (/\ c.pc = "await1" /\ d.pc # "await1" /\ d.errs # <<>>
        /\ IsRateLimitError(d.errs[1]) = "true"
        /\ C1_AltAvailable(alt))
       => /\ d.pc = "await2"
          /\ d.attempts = <<first, alt>>
          /\ d.req.sent /\ d.req.provider = alt
          /\ apiState'.currentProvider = alt
          /\ (first = GOOGLE_CUSTOM_SEARCH =>
                apiState'.googleDisabled /\ apiState'.serpDisabled = apiState.serpDisabled)
          /\ (first = SERP_API =>
                apiState'.serpDisabled /\ apiState'.googleDisabled = apiState.googleDisabled)
C1_RetryResult ==
  \A s \in Slots :
    LET c == calls[s]
    IN (c.pc = "returned" /\ Len(c.attempts) = 2)
       => /\ Len(c.result) = Min(c.limit, Len(c.resp.items))
          /\ \A i \in 1..Len(c.result) :
               /\ c.result[i].source = c.attempts[2]
               /\ c.result[i].original = RawId(c.resp.items[i])
C1_FailoverOnRateLimit == [][C1_FailoverStep]_vars /\ []C1_RetryResult
C1_Witness ==
  \E s \in Slots :
    /\ calls[s].pc = "returned" /\ Len(calls[s].attempts) = 2
    /\ calls[s].result # <<>>
    /\ apiState.currentProvider = SERP_API /\ apiState.googleDisabled

\* C2: once an invocation has failed over from a provider, every attempt any
\* later invocation makes (until initializeApiConfig is called again) is a
\* first attempt sent to the other provider: the provider failed over from
\* is never tried again, whatever the other provider answers.
C2_LaterAttempt ==
  \A s \in Slots :
    (/\ failedFrom # "none"
     /\ calls'[s].attempts # calls[s].attempts
     /\ calls'[s].attempts # <<>>)
    => calls'[s].attempts = <<Other(failedFrom)>>
C2_FailoverPersistent == [][C2_LaterAttempt]_vars
C2_Witness ==
  \E s \in Slots :
    /\ failedFrom # "none"
    /\ calls[s].pc = "threw"
    /\ calls[s].attempts = <<Other(failedFrom)>>
    /\ IsRateLimitError(calls[s].errs[1]) = "true"

\* C3: an invocation makes at most two backend attempts, and two attempts go
\* to two different providers.
C3_OneShotFailover ==
  \A s \in Slots :
    /\ Len(calls[s].attempts) <= 2
    /\ Len(calls[s].attempts) = 2 => calls[s].attempts[1] # calls[s].attempts[2]
C3_Witness ==
  \E s \in Slots : Len(calls[s].attempts) = 2 /\ calls[s].pc = "threw"

\* C4: if the first attempt fails with an error that is not classified as a
\* rate limit, the invocation fails with that very error, makes no attempt on
\* the other provider and leaves apiState unchanged.
C4_Throws ==
  \A s \in Slots :
    LET c == calls[s]
    IN (c.pc = "threw" /\ Len(c.errs) = 1 /\ IsRateLimitError(c.errs[1]) # "true")
       => c.thrown = c.errs[1] /\ Len(c.attempts) = 1
C4_Frame ==
  \A s \in Slots :
    (/\ calls[s].pc = "await1" /\ calls'[s].pc # "await1" /\ calls'[s].errs # <<>>
     /\ IsRateLimitError(calls'[s].errs[1]) # "true")
    => apiState' = apiState /\ calls'[s].pc = "threw"
C4_NonRateLimitPropagates == []C4_Throws /\ [][C4_Frame]_vars

\* C5: whenever an invocation fails, the error it throws is the error of its
\* most recent backend attempt.
C5_SurfacesMostRecentError ==
  \A s \in Slots :
    calls[s].pc = "threw" => calls[s].thrown = calls[s].errs[Len(calls[s].errs)]

\* C6: initializeApiConfig succeeds exactly when a complete, non-empty
\* credential set is present and throws otherwise; on success the current
\* provider is Google whenever the Google pair is complete, SerpAPI otherwise.
C6_GooglePair == apiConfig.googleApiKey = "key" /\ apiConfig.googleCseId = "key"
C6_InitializeSelectsProvider ==
  lastInit.result # "none" =>
    /\ lastInit.result = "ok" <=> (C6_GooglePair \/ apiConfig.serpApiKey = "key")
    /\ lastInit.result = "ok" =>
         lastInit.provider = IF C6_GooglePair THEN GOOGLE_CUSTOM_SEARCH ELSE SERP_API
    /\ lastInit.result = "threw" => lastInit.provider = "none"
C6_Witness ==
  /\ lastInit.result = "ok" /\ lastInit.provider = GOOGLE_CUSTOM_SEARCH
  /\ C6_GooglePair /\ apiConfig.serpApiKey = "key"

\* C7: an error is classified as rate-limited exactly when its status is 429
\* or 403 or its response body contains one of the phrases; every other
\* error is classified as not rate-limited.
C7_BodyHasPhrase(data) ==
  \/ Includes(data.str, PhraseRateLimit)
  \/ Includes(data.str, PhraseQuota)
  \/ Includes(data.str, PhraseLimitExceeded)
C7_RateLimited(e) ==
  e.kind = "http" /\ (e.status = 429 \/ e.status = 403 \/ C7_BodyHasPhrase(e.data))
C7_Classification ==
  \A s \in Slots :
    calls[s].errs # <<>> =>
      IsRateLimitError(calls[s].errs[1])
        = IF C7_RateLimited(calls[s].errs[1]) THEN "true" ELSE "false"

\* C8: a successful invocation with limit > 0 on a response of m results
\* returns exactly the first min(limit, m) of them, in the backend's order,
\* with positions 1..min(limit, m).
C8_ResultTruncation ==
  \A s \in Slots :
    LET c == calls[s]
        k == Min(c.limit, Len(c.resp.items))
    IN c.pc = "returned" =>
         /\ Len(c.result) = k
         /\ Len(c.result) <= c.limit
         /\ \A i \in 1..k :
              /\ c.result[i].original = RawId(c.resp.items[i])
              /\ c.result[i].position = i
C8_Witness ==
  \E s \in Slots :
    /\ calls[s].pc = "returned"
    /\ Len(calls[s].resp.items) > calls[s].limit
    /\ calls[s].limit >= 2
    /\ calls[s].attempts = <<GOOGLE_CUSTOM_SEARCH>>
    /\ calls[s].resp.items[1].link # 1

\* C9: a provider fetch fails whenever the backend answers with a non-2xx
\* status or with the result list missing or empty: an invocation returns
\* only on a 2xx response with a non-empty result list.
C9_EmptyOrMissingIsFailure ==
  \A s \in Slots :
    calls[s].pc = "returned" =>
      /\ calls[s].resp.ok /\ calls[s].resp.hasField
      /\ calls[s].resp.items # <<>>

\* C10: the two disabled flags are never both set; an invocation whose
\* rate-limited first attempt finds no alternate provider throws that error
\* without a second attempt.
C10_NeverBothDisabled ==
  /\ ~(apiState.googleDisabled /\ apiState.serpDisabled)
  /\ \A s \in Slots :
       LET c == calls[s]
       IN (c.pc = "threw" /\ Len(c.errs) = 1 /\ IsRateLimitError(c.errs[1]) = "true")
          => c.thrown = c.errs[1] /\ Len(c.attempts) = 1
C10_Witness ==
  \E s \in Slots :
    /\ apiState.googleDisabled
    /\ calls[s].pc = "threw" /\ Len(calls[s].errs) = 1
    /\ IsRateLimitError(calls[s].errs[1]) = "true"

\* C11: once a failover has happened, no later step clears a disabled flag
\* or makes the disabled provider current again; in particular not a call of
\* initializeApiConfig that finds the credentials unchanged.
C11_Step ==
  apiConfig' = apiConfig =>
    /\ apiState.googleDisabled =>
         apiState'.googleDisabled /\ apiState'.currentProvider # GOOGLE_CUSTOM_SEARCH
    /\ apiState.serpDisabled =>
         apiState'.serpDisabled /\ apiState'.currentProvider # SERP_API
C11_StateNeverReset == [][C11_Step]_vars

\* ================================================================ isValidImageUrl alone
\* The function applied to each URL of UrlSamples.
InitUrl ==
  /\ InitGateway
  /\ dl = IdleDownload /\ fs = EmptyFs /\ fetches = <<>>
  /\ sc = IdleScore /\ an = IdleAnalyze
  /\ uv \in { [pc |-> "call", url |-> u, result |-> FALSE] : u \in UrlSamples }
ValidateUrl ==
  /\ uv.pc = "call"
  /\ uv' = [uv EXCEPT !.pc = "done", !.result = IsValidImageUrl(uv.url.str)]
  /\ UNCHANGED <<gatewayVars, downloadVars, scoreVars>>
NextUrl == ValidateUrl
SpecUrl == InitUrl /\ [][NextUrl]_vars

\* C13: isValidImageUrl returns true exactly for the URLs that parse, have
\* the scheme http or https (in any letter case) and a hostname that is not
\* `localhost` in any letter case and does not begin with 127., 169.254.,
\* 192.168., 10. or 172.16. to 172.31.; false for everything else.
C13_Dec(n) == <<DigitChars[(n \div 10) + 1], DigitChars[(n % 10) + 1]>>
C13_PrivateHost(h) ==
  \/ ToLowerCase(h) = ToLowerCase(<<"L", "O", "C", "A", "L", "H", "O", "S", "T">>)
  \/ \E p \in { <<"1", "2", "7", ".">>, <<"1", "6", "9", ".", "2", "5", "4", ".">>,
                <<"1", "9", "2", ".", "1", "6", "8", ".">>, <<"1", "0", ".">> } :
       StartsWith(h, p)
  \/ \E n \in 16..31 : StartsWith(h, <<"1", "7", "2", ".">> \o C13_Dec(n) \o <<".">>)
C13_Safe(u) ==
  /\ u.wellFormed
  /\ ToLowerCase(u.scheme) \in { <<"h", "t", "t", "p">>, <<"h", "t", "t", "p", "s">> }
  /\ ~C13_PrivateHost(u.host)
C13_UrlClassification == uv.pc = "done" => (uv.result <=> C13_Safe(uv.url))
C13_Witness ==
  /\ uv.pc = "done" /\ ~uv.result
  /\ uv.url.wellFormed /\ uv.url.scheme = <<"h", "t", "t", "p", "s">>
  /\ uv.url.host = <<"1", "7", "2", ".", "3", "1", ".", "0", ".", "1">>

\* ------------------------------------------------------------ downloadImage alone
\* One invocation of downloadImage on a file system that holds no file yet.
InitDownload ==
  /\ InitGateway
  /\ dl = IdleDownload
  /\ fs \in { EmptyFs,
              [EmptyFs EXCEPT !.dirs =
                 @ \cup UNION { Ancestors(o.canonical) : o \in OutputPathSamples }] }
  /\ fetches = <<>>
  /\ sc = IdleScore /\ an = IdleAnalyze
  /\ uv = IdleUrlCheck

\* downloadImage up to its await: the URL check, the tilde, the directory,
\* and the request handed to axios.
DownloadImage(url, outputPath, baseFilename) ==
  /\ dl.pc = "idle"
  /\ LET call == [dl EXCEPT !.url = url, !.outputPath = outputPath.str,
                            !.baseFilename = baseFilename, !.fsBefore = fs]
         dir == ExpandedOutputDir(outputPath.str)
     IN IF ~UrlGate(url.str)
        THEN /\ dl' = [call EXCEPT !.pc = "threw", !.thrown = UnsafeUrlError]
             /\ UNCHANGED <<fs, fetches>>
        ELSE /\ dl' = [call EXCEPT !.pc = "fetching"]
             /\ fs' = IF ExistsSync(fs, dir) THEN fs ELSE MkdirRecursive(fs, dir)
             /\ fetches' = Append(fetches, url.str)
  /\ UNCHANGED <<gatewayVars, scoreVars, urlVars>>

\* The request is rejected: the catch block rethrows.
FetchFails ==
  /\ dl.pc = "fetching"
  /\ dl' = [dl EXCEPT !.pc = "threw", !.thrown = FetchError]
  /\ UNCHANGED <<fs, fetches, gatewayVars, scoreVars, urlVars>>

\* The request is answered with `buffer`: the rest of downloadImage.
FetchSucceeds(buffer, w) ==
  /\ dl.pc = "fetching"
  /\ LET detectedFormat == DetectImageFormat(buffer)
         finalFilename == FinalFilename(dl.baseFilename, detectedFormat)
         sane == SanitizeFilePath(ExpandedOutputPath(dl.outputPath), finalFilename)
         got == [dl EXCEPT !.buffer = buffer, !.format = detectedFormat]
         named == [got EXCEPT !.finalFilename = finalFilename]
         placed == [named EXCEPT !.fullPath = sane.fullPath, !.write = w]
     IN IF detectedFormat = NoFormat
        THEN /\ w = "written"
             /\ dl' = [got EXCEPT !.pc = "threw", !.thrown = UndetectedFormatError]
             /\ fs' = fs
        ELSE IF ~sane.ok
        THEN /\ w = "written"
             /\ dl' = [named EXCEPT !.pc = "threw", !.thrown = TraversalError]
             /\ fs' = fs
        ELSE IF w = "written"
        THEN /\ dl' = [placed EXCEPT !.pc = "returned"]
             /\ fs' = WithFile(fs, sane.fullPath, buffer)
        ELSE IF w = "failed"
        THEN /\ dl' = [placed EXCEPT !.pc = "threw", !.thrown = WriteError]
             /\ fs' = fs
        ELSE /\ dl' = [placed EXCEPT !.pc = "threw", !.thrown = WriteError]
             /\ fs' = WithFile(fs, sane.fullPath, PartOf(buffer))
  /\ UNCHANGED <<fetches, gatewayVars, scoreVars, urlVars>>

NextDownload ==
  \/ \E url \in DownloadUrlSamples, outputPath \in OutputPathSamples,
        baseFilename \in BaseFilenameSamples :
       DownloadImage(url, outputPath, baseFilename)
  \/ FetchFails
  \/ \E buffer \in SampleBuffers, w \in WriteOutcomes : FetchSucceeds(buffer, w)

SpecDownload == InitDownload /\ [][NextDownload]_vars

\* C12: a downloadImage invocation whose URL the safety check rejects throws
\* 'Invalid or unsafe URL', and no request is ever issued in it.
C12_NoFetchForUnsafeUrl ==
  (dl.pc # "idle" /\ ~IsValidImageUrl(dl.url.str)) =>
    /\ dl.pc = "threw"
    /\ dl.thrown = UnsafeUrlError
    /\ fetches = <<>>
C12_Witness ==
  /\ dl.pc = "threw"
  /\ dl.thrown = UnsafeUrlError
  /\ dl.url.host = <<"1", "6", "9", ".", "2", "5", "4", ".", "1", "6", "9", ".", "2", "5", "4">>
  /\ fetches = <<>>

\* C14: an invocation whose baseFilename contains "..", "/" or "\" never
\* returns and never leaves a file, whatever the request is answered with.
C14_Traversal(filename) ==
  \E i \in 1..Len(filename) :
    \/ filename[i] \in {"/", "\\"}
    \/ i < Len(filename) /\ filename[i] = "." /\ filename[i + 1] = "."
SanitizeDirSamples ==
  { [str |-> <<".", "/", "t", "e", "s", "t", "s", "/", "f", "i", "x", "t", "u", "r", "e", "s", "/", "d", "o", "w", "n", "l", "o", "a", "d", "s">>,
     canonical |-> << <<"w", "o", "r", "k">>, <<"t", "e", "s", "t", "s">>, <<"f", "i", "x", "t", "u", "r", "e", "s">>, <<"d", "o", "w", "n", "l", "o", "a", "d", "s">> >>],
    [str |-> <<"/", "t", "m", "p", "/", "a", "/", ".", ".", "/", "o", "u", "t", "/">>, canonical |-> << <<"t", "m", "p">>, <<"o", "u", "t">> >>],
    [str |-> <<"/", "h", "o", "m", "e", "/", "u", "s", "e", "r", "/", "P", "i", "c", "t", "u", "r", "e", "s">>, canonical |-> << <<"h", "o", "m", "e">>, <<"u", "s", "e", "r">>, <<"P", "i", "c", "t", "u", "r", "e", "s">> >>],
    [str |-> <<"o", "u", "t">>, canonical |-> << <<"w", "o", "r", "k">>, <<"o", "u", "t">> >>],
    [str |-> <<"/">>, canonical |-> <<>>] }
FilenameSamples ==
  { <<"t", "e", "s", "t", ".", "j", "p", "g">>, <<"p", "h", "o", "t", "o", ".", "p", "n", "g">>, <<"t", "e", "s", "t", ":", "i", "m", "a", "g", "e", "?", ".", "j", "p", "g">>, <<"<", "x", ">", "|", "\"", "*", ".", "g", "i", "f">>, <<"a", ".", "b", ".", "w", "e", "b", "p">>,
    <<".", "h", "i", "d", "d", "e", "n", ".", "s", "v", "g">>, <<"p", "h", "o", "t", "o", ".", ".", "j", "p", "g">>, <<"a", "/", "b", ".", "p", "n", "g">>, <<"a", "\\", "b", ".", "p", "n", "g">>, <<".", ".", ".", "j", "p", "g">>,
    <<".", ".", "/", "t", "e", "s", "t", ".", "j", "p", "g">>, <<"a", " ", "b", ".", "t", "i", "f", "f">>, <<"~", "r", "o", "o", "t", ".", "p", "n", "g">>, <<"-", "r", "f", ".", "b", "m", "p">>, <<"%", "2", "e", "%", "2", "e", "%", "2", "f", "e", "t", "c", ".", "i", "c", "o">>,
    <<"x">>, <<"?">>, <<"~">>, <<".">>, <<>> }

InitSanitize ==
  /\ InitGateway
  /\ \E o \in SanitizeDirSamples, f \in FilenameSamples :
       dl = [IdleDownload EXCEPT !.pc = "sanitizing", !.outputPath = o.str,
                                 !.finalFilename = f]
  /\ fs = EmptyFs
  /\ fetches = <<>>
  /\ sc = IdleScore /\ an = IdleAnalyze
  /\ uv = IdleUrlCheck

\* sanitizeFilePath(outputPath, filename) returns or throws.
Sanitize ==
  /\ dl.pc = "sanitizing"
  /\ LET sane == SanitizeFilePath(dl.outputPath, dl.finalFilename)
     IN dl' = IF sane.ok
              THEN [dl EXCEPT !.pc = "sanitized", !.fullPath = sane.fullPath]
              ELSE [dl EXCEPT !.pc = "threw", !.thrown = TraversalError]
  /\ UNCHANGED <<fs, fetches, gatewayVars, scoreVars, urlVars>>

NextSanitize == Sanitize
SpecSanitize == InitSanitize /\ [][NextSanitize]_vars

\* The filename with each of < > : " | ? * replaced by "_".
C15_Replaced(filename) ==
  [i \in 1..Len(filename) |->
     IF filename[i] \in {"<", ">", ":", "\"", "|", "?", "*"} THEN "_" ELSE filename[i]]
\* The canonical absolute directory the call's outputPath names.
C15_OutputDir == (CHOOSE o \in SanitizeDirSamples : o.str = dl.outputPath).canonical
\* The call returned a direct child of that directory, named by the
\* filename with the seven characters replaced.
C15_Child ==
  /\ dl.pc = "sanitized"
  /\ dl.fullPath = Append(C15_OutputDir, C15_Replaced(dl.finalFilename))

C19_Signatures ==
  << [bytes |-> <<255, 216, 255>>, extension |-> <<"j", "p", "g">>, mimeType |-> "image/jpeg"],
     [bytes |-> <<137, 80, 78, 71, 13, 10, 26, 10>>,
      extension |-> <<"p", "n", "g">>, mimeType |-> "image/png"],
     [bytes |-> <<71, 73, 70, 56, 55, 97>>, extension |-> <<"g", "i", "f">>, mimeType |-> "image/gif"],
     [bytes |-> <<71, 73, 70, 56, 57, 97>>, extension |-> <<"g", "i", "f">>, mimeType |-> "image/gif"],
     [bytes |-> <<82, 73, 70, 70, -1, -1, -1, -1, 87, 69, 66, 80>>,
      extension |-> <<"w", "e", "b", "p">>, mimeType |-> "image/webp"],
     [bytes |-> <<66, 77>>, extension |-> <<"b", "m", "p">>, mimeType |-> "image/bmp"],
     [bytes |-> <<0, 0, 1, 0>>, extension |-> <<"i", "c", "o">>, mimeType |-> "image/x-icon"],
     [bytes |-> <<73, 73, 42, 0>>, extension |-> <<"t", "i", "f", "f">>, mimeType |-> "image/tiff"],
     [bytes |-> <<77, 77, 0, 42>>, extension |-> <<"t", "i", "f", "f">>, mimeType |-> "image/tiff"] >>
C19_BeginsWith(buffer, bytes) ==
  /\ Len(buffer) >= Len(bytes)
  /\ \A i \in 1..Len(bytes) : bytes[i] = -1 \/ buffer[i] = bytes[i]
\* Some signature is what the buffer begins with.
C19_Signed(buffer) ==
  \E k \in 1..Len(C19_Signatures) : C19_BeginsWith(buffer, C19_Signatures[k].bytes)
\* '<svg' and an SVG namespace attribute lie within the first 1000 bytes.
C19_SvgText(buffer) ==
  LET Within(marker) ==
        \E i \in 1..(1000 - Len(marker) + 1) :
          /\ i + Len(marker) - 1 <= Len(buffer)
          /\ \A j \in 1..Len(marker) : buffer[i + j - 1] = marker[j]
  IN /\ Within(SvgTag)
     /\ Within(SvgNamespaceDouble) \/ Within(SvgNamespaceSingle)
C19_Expected(buffer) ==
  IF C19_Signed(buffer)
  THEN LET k == CHOOSE k \in 1..Len(C19_Signatures) :
                  /\ C19_BeginsWith(buffer, C19_Signatures[k].bytes)
                  /\ \A h \in 1..(k - 1) : ~C19_BeginsWith(buffer, C19_Signatures[h].bytes)
       IN [extension |-> C19_Signatures[k].extension,
           mimeType |-> C19_Signatures[k].mimeType]
  ELSE IF C19_SvgText(buffer)
  THEN [extension |-> <<"s", "v", "g">>, mimeType |-> "image/svg+xml"]
  ELSE NoFormat
\* The request of the invocation was answered and the bytes were sniffed.
C19_Sniffed == dl.pc \in {"returned", "threw"} /\ dl.thrown \notin {UnsafeUrlError, FetchError}

\* C19: detectImageFormat gives the format of the first signature, in the
\* order JPEG, PNG, GIF87a/89a, WEBP, BMP, ICO, TIFF II, TIFF MM, that the
\* bytes begin with, else SVG when the text fallback matches, else none.
C19_FirstMatchingSignature ==
  C19_Sniffed => dl.format = C19_Expected(dl.buffer)
C19_Witness ==
  /\ C19_Sniffed
  /\ dl.buffer = <<66, 77>> \o SvgDocument
  /\ C19_SvgText(dl.buffer)
  /\ dl.format.extension = <<"b", "m", "p">>

\* C16 (as stated): bytes the sniffer does not recognize make the
\* invocation throw the format-undetected error with no file written, and
\* every file a completed invocation wrote begins with a signature.
C16_Unrecognized == C19_Sniffed /\ C19_Expected(dl.buffer) = NoFormat
C16_UndetectedFails ==
  C16_Unrecognized => (dl.thrown = UndetectedFormatError /\ fs.files = {})
C16_WrittenBeginsWithSignature ==
  /\ C16_UndetectedFails
  /\ dl.pc = "returned" => \A file \in fs.files : C19_Signed(file.content)

\* C16 (amended): the same failure on unrecognized bytes, and every file
\* holds a fetched buffer (a leading part of it when the write failed)
\* that begins with a signature or carries the SVG markers within its
\* first 1000 bytes.
C16_LeadingPart(content, buffer) ==
  Len(content) <= Len(buffer) /\ content = SubSeq(buffer, 1, Len(content))
C16_WrittenWasRecognized ==
  /\ C16_UndetectedFails
  /\ \A file \in fs.files :
       /\ C19_Signed(dl.buffer) \/ C19_SvgText(dl.buffer)
       /\ IF dl.pc = "returned" THEN file.content = dl.buffer
          ELSE C16_LeadingPart(file.content, dl.buffer)
C16_Witness ==
  /\ dl.pc = "returned"
  /\ dl.format.extension = <<"s", "v", "g">>
  /\ \E file \in fs.files :
       /\ file.path = dl.fullPath
       /\ SubSeq(file.content, 1, 5) = <<60, 63, 120, 109, 108>>
       /\ ~C19_Signed(file.content)

\* C17: an invocation that fails leaves no file, partial or whole, behind:
\* a failed write is followed by the removal of what it wrote.
C17_NoFileAfterFailure ==
  dl.pc = "threw" => ~\E file \in fs.files : file.path = dl.fullPath

\* baseFilename without its last extension: the last dot and the
\* characters after it, when there are any.
C18_Stem(baseFilename) ==
  IF \E d \in 1..(Len(baseFilename) - 1) :
       baseFilename[d] = "." /\ \A i \in (d + 1)..Len(baseFilename) : baseFilename[i] # "."
  THEN LET d == CHOOSE d \in 1..(Len(baseFilename) - 1) :
                  baseFilename[d] = "."
                  /\ \A i \in (d + 1)..Len(baseFilename) : baseFilename[i] # "."
       IN SubSeq(baseFilename, 1, d - 1)
  ELSE baseFilename
\* The name the file of this invocation is to carry.
C18_Name ==
  C15_Replaced(C18_Stem(dl.baseFilename)) \o <<".">> \o C19_Expected(dl.buffer).extension

\* C18: the file downloadImage writes lies in the output directory and is
\* named baseFilename without its last extension, a dot, and the sniffed
\* extension, whatever extension the caller gave.
C18_NamedBySniffedFormat ==
  /\ \A file \in fs.files :
       \E o \in OutputPathSamples :
         o.str = dl.outputPath /\ file.path = Append(o.canonical, C18_Name)
  /\ dl.pc = "returned" => \E file \in fs.files : file.path = dl.fullPath
C18_Witness ==
  /\ dl.pc = "returned"
  /\ dl.baseFilename = <<"a", ".", "b", ".", "p", "n", "g">>
  /\ dl.format.extension = <<"j", "p", "g">>
  /\ \E file \in fs.files : file.path[Len(file.path)] = <<"a", ".", "b", ".", "j", "p", "g">>

\* ------------------------------------------------------------ calculateRelevanceScore
\* The characters the regular expression \s matches, among those used here.
Whitespace == {" ", "\t", "\n"}

\* s.split(/\s+/): the pieces between the maximal runs of whitespace, the
\* empty piece before a leading run and after a trailing run included.
RECURSIVE SplitWhitespace(_)
SplitWhitespace(s) ==
  LET k == FirstIndexIn(s, Whitespace)
  IN IF k = 0 THEN <<s>>
     ELSE LET rest == SubSeq(s, k + 1, Len(s))
              n == IF \E i \in 1..Len(rest) : rest[i] \notin Whitespace
                   THEN (CHOOSE i \in 1..Len(rest) :
                           rest[i] \notin Whitespace
                           /\ \A j \in 1..(i - 1) : rest[j] \in Whitespace) - 1
                   ELSE Len(rest)
          IN <<SubSeq(s, 1, k - 1)>> \o SplitWhitespace(SubSeq(rest, n + 1, Len(rest)))

\* The truthiness of an optional number: present and not zero.
NumberTruthy(n) == n.present /\ n.value # 0

\* The forEach over the keywords: 2 for each one the title includes.
RECURSIVE KeywordPoints(_, _)
KeywordPoints(titleLower, criteriaKeywords) ==
  IF criteriaKeywords = <<>> THEN 0
  ELSE (IF Includes(titleLower, Head(criteriaKeywords)) THEN 2 ELSE 0)
       + KeywordPoints(titleLower, Tail(criteriaKeywords))

ResolutionPoints(image) ==
  IF NumberTruthy(image.width) /\ NumberTruthy(image.height)
  THEN LET resolution == image.width.value * image.height.value
       IN IF resolution > 1000000 THEN 3
          ELSE IF resolution > 500000 THEN 2
          ELSE 1
  ELSE 0

\* if (!image.is_product) score += 1
ProductPoints(image) == IF image.is_product # "true" THEN 1 ELSE 0

CalculateRelevanceScore(image, criteria) ==
  KeywordPoints(ToLowerCase(image.title), SplitWhitespace(ToLowerCase(criteria)))
  + ResolutionPoints(image) + ProductPoints(image)

TitleSamples == { <<"C", "u", "t", "e", " ", "C", "a", "t", " ", "p", "h", "o", "t", "o">>, <<"c", "o", "n", "c", "a", "t", "e", "n", "a", "t", "e">>, <<"D", "o", "g">> }
DimensionSamples ==
  { <<Known(1000), Known(1000)>>, <<Known(1001), Known(1000)>>,
    <<Known(1001), Known(500)>>, <<Known(1000), Known(500)>>,
    <<Known(800), Known(600)>>, <<Known(1), Known(1)>>,
    <<Absent, Absent>>, <<Known(4000), Absent>>, <<Absent, Known(3000)>> }
CriteriaSamples ==
  { <<"c", "a", "t">>, <<"C", "A", "T", " ", "p", "h", "o", "t", "o">>, <<"c", "a", "t", " ", "c", "a", "t">>, <<"c", "u", "t", "e", " ", " ", " ", "d", "o", "g">>, <<"b", "i", "r", "d">>,
    <<>>, <<" ">>, <<" ", "c", "a", "t">>, <<"c", "a", "t", " ">>, <<"c", "a", "t", "\t", "\n", "p", "h", "o", "t", "o">> }

InitScore ==
  /\ InitGateway
  /\ dl = IdleDownload /\ fs = EmptyFs /\ fetches = <<>>
  /\ uv = IdleUrlCheck /\ an = IdleAnalyze
  /\ \E title \in TitleSamples, d \in DimensionSamples,
        p \in {"true", "false", "undefined"}, criteria \in CriteriaSamples :
       sc = [IdleScore EXCEPT !.pc = "call", !.image = Image(title, d[1], d[2], p),
                               !.criteria = criteria]

Score ==
  /\ sc.pc = "call"
  /\ sc' = [sc EXCEPT !.pc = "done", !.score = CalculateRelevanceScore(sc.image, sc.criteria)]
  /\ UNCHANGED <<gatewayVars, downloadVars, urlVars, an>>

NextScore == Score
SpecScore == InitScore /\ [][NextScore]_vars

\* The tokens of criteria: its maximal runs of non-whitespace characters,
\* lower-cased, in order.
RECURSIVE C20_Tokens(_)
C20_Tokens(s) ==
  IF s = <<>> THEN <<>>
  ELSE IF Head(s) \in Whitespace THEN C20_Tokens(Tail(s))
  ELSE LET k == FirstIndexIn(s, Whitespace)
           end == IF k = 0 THEN Len(s) ELSE k - 1
       IN <<ToLowerCase(SubSeq(s, 1, end))>> \o C20_Tokens(SubSeq(s, end + 1, Len(s)))
C20_Occurrences(title, tokens) ==
  Cardinality({ i \in 1..Len(tokens) : Includes(ToLowerCase(title), tokens[i]) })
C20_BothKnown(image) == image.width.present /\ image.height.present
C20_Expected(image, criteria) ==
  2 * C20_Occurrences(image.title, C20_Tokens(criteria))
  + (IF ~C20_BothKnown(image) THEN 0
     ELSE IF image.width.value * image.height.value > 1000000 THEN 3
     ELSE IF image.width.value * image.height.value > 500000 THEN 2
     ELSE 1)
  + (IF image.is_product \in {"false", "undefined"} THEN 1 ELSE 0)

\* C20: the score is 2 for every token of criteria (repeats counted) the
\* lower-cased title contains, plus the resolution bonus when width and
\* height are both known, plus 1 unless is_product is true.
C20_ScoreFormula ==
  sc.pc = "done" => sc.score = C20_Expected(sc.image, sc.criteria)
\* The same, for criteria that neither are empty nor begin or end with whitespace.
C20_ScoreFormulaTrimmed ==
  (sc.pc = "done" /\ sc.criteria # <<>>
     /\ Head(sc.criteria) \notin Whitespace
     /\ sc.criteria[Len(sc.criteria)] \notin Whitespace) =>
    sc.score = C20_Expected(sc.image, sc.criteria)

\* ------------------------------------------------------------ analyze_images
\* (a, b) => (b.relevanceScore || 0) - (a.relevanceScore || 0)
ByScoreDescending(a, b) == b.relevanceScore - a.relevanceScore

\* Mutant: results with equal scores come out in reverse input order.
SortTiesReversed(array) ==
  LET Rank(i) ==
        1 + Cardinality({ j \in 1..Len(array) :
              \/ ByScoreDescending(array[j], array[i]) < 0
              \/ ByScoreDescending(array[j], array[i]) = 0 /\ j > i })
  IN [k \in 1..Len(array) |-> array[CHOOSE i \in 1..Len(array) : Rank(i) = k]]

\* analyzedResults.sort(compareFn), a stable sort: an element comes after
\* those the comparator puts before it and after the equal ones that
\* preceded it in the array.
Sort(array) ==
  LET Rank(i) ==
        1 + Cardinality({ j \in 1..Len(array) :
              \/ ByScoreDescending(array[j], array[i]) < 0
              \/ ByScoreDescending(array[j], array[i]) = 0 /\ j < i })
  IN [k \in 1..Len(array) |-> array[CHOOSE i \in 1..Len(array) : Rank(i) = k]]

\* Mutant: the first tier has four places.
RecommendationFirstFour(index) ==
  IF index < 4 THEN "Highly recommended"
  ELSE IF index < 6 THEN "Recommended"
  ELSE "Standard option"

\* The label of the result at `index` (from 0) of the sorted array.
Recommendation(index) ==
  IF index < 3 THEN "Highly recommended"
  ELSE IF index < 6 THEN "Recommended"
  ELSE "Standard option"

\* A search result handed to analyze_images; `link` tells the results apart.
SearchResult(link, image) ==
  [link |-> link, title |-> image.title, width |-> image.width,
   height |-> image.height, is_product |-> image.is_product]
\* searchResults.map(img => ({...img, relevanceScore: ...}))
Scored(img, criteria) ==
  [link |-> img.link, title |-> img.title, width |-> img.width, height |-> img.height,
   is_product |-> img.is_product,
   relevanceScore |-> CalculateRelevanceScore(img, criteria)]
\* analyzedResults.map((img, index) => ({...img, recommendation: ...}))
Recommended(img, index) ==
  [link |-> img.link, title |-> img.title, width |-> img.width, height |-> img.height,
   is_product |-> img.is_product, relevanceScore |-> img.relevanceScore,
   recommendation |-> Recommendation(index)]

\* The handler of analyze_images on (searchResults, criteria).
AnalyzeImagesResult(searchResults, criteria) ==
  LET analyzedResults == [i \in 1..Len(searchResults) |-> Scored(searchResults[i], criteria)]
      sorted == Sort(analyzedResults)
  IN [k \in 1..Len(sorted) |-> Recommended(sorted[k], k - 1)]

ImagePool ==
  { Image(<<"C", "u", "t", "e", " ", "C", "a", "t", " ", "p", "h", "o", "t", "o">>, Known(1001), Known(1000), "false"),
    Image(<<"c", "o", "n", "c", "a", "t", "e", "n", "a", "t", "e">>, Known(800), Known(600), "undefined"),
    Image(<<"D", "o", "g">>, Absent, Absent, "true") }
AnalyzeCriteria == { <<"c", "a", "t">>, <<"c", "a", "t", " ", "c", "a", "t", " ", "c", "a", "t", " ", "c", "a", "t", " ", "c", "a", "t">> }
SearchResultLists ==
  UNION { { [i \in 1..n |-> SearchResult(i, f[i])] : f \in [1..n -> ImagePool] } :
          n \in 0..MaxResults }

InitAnalyze ==
  /\ InitGateway
  /\ dl = IdleDownload /\ fs = EmptyFs /\ fetches = <<>>
  /\ uv = IdleUrlCheck /\ sc = IdleScore
  /\ \E searchResults \in SearchResultLists, criteria \in AnalyzeCriteria :
       an = [IdleAnalyze EXCEPT !.pc = "call", !.searchResults = searchResults,
                                 !.criteria = criteria]

AnalyzeImages ==
  /\ an.pc = "call"
  /\ an' = [an EXCEPT !.pc = "done",
                      !.output = AnalyzeImagesResult(an.searchResults, an.criteria)]
  /\ UNCHANGED <<gatewayVars, downloadVars, urlVars, sc>>

NextAnalyze == AnalyzeImages
SpecAnalyze == InitAnalyze /\ [][NextAnalyze]_vars

\* C21: the output holds every input result exactly once, scores never
\* increase along it, and results with equal scores are in input order.
C21_Permutation ==
  /\ Len(an.output) = Len(an.searchResults)
  /\ \A i \in 1..Len(an.searchResults) :
       \E k \in 1..Len(an.output) :
         /\ an.output[k].link = i
         /\ an.output[k].title = an.searchResults[i].title
         /\ an.output[k].width = an.searchResults[i].width
         /\ an.output[k].height = an.searchResults[i].height
         /\ an.output[k].is_product = an.searchResults[i].is_product
C21_Descending ==
  \A k \in 1..Len(an.output), l \in 1..Len(an.output) :
    k < l => an.output[k].relevanceScore >= an.output[l].relevanceScore
C21_Stable ==
  \A k \in 1..Len(an.output), l \in 1..Len(an.output) :
    (k < l /\ an.output[k].relevanceScore = an.output[l].relevanceScore) =>
      an.output[k].link < an.output[l].link
C21_StableDescendingPermutation ==
  an.pc = "done" => (C21_Permutation /\ C21_Descending /\ C21_Stable)
C21_Witness ==
  /\ an.pc = "done"
  /\ Len(an.output) = 4
  /\ an.output[1].link = 2 /\ an.output[2].link = 4
  /\ an.output[1].relevanceScore = an.output[2].relevanceScore
  /\ an.output[3].link = 1 /\ an.output[4].link = 3
  /\ an.output[2].relevanceScore > an.output[3].relevanceScore
  /\ an.output[3].relevanceScore = an.output[4].relevanceScore

\* C22: the results at sorted indices 0..2 are 'Highly recommended', at
\* 3..5 'Recommended', at 6 and beyond 'Standard option'.
C22_RankToTier ==
  an.pc = "done" =>
    \A k \in 1..Len(an.output) :
      an.output[k].recommendation =
        (IF k - 1 \in {0, 1, 2} THEN "Highly recommended"
         ELSE IF k - 1 \in {3, 4, 5} THEN "Recommended"
         ELSE "Standard option")
C22_Witness ==
  /\ an.pc = "done"
  /\ Len(an.output) = 7
  /\ an.output[3].recommendation = "Highly recommended"
  /\ an.output[4].recommendation = "Recommended"
  /\ an.output[6].recommendation = "Recommended"
  /\ an.output[7].recommendation = "Standard option"

\* C23: every relevanceScore in the output lies between 1 and 10.
C23_ScoreInRange ==
  an.pc = "done" =>
    \A k \in 1..Len(an.output) :
      1 <= an.output[k].relevanceScore /\ an.output[k].relevanceScore <= 10

\* The URL carries a double quote, a semicolon, "&&" or a backtick.
C24_ShellMetacharacters(url) ==
  \E i \in 1..Len(url) :
    \/ url[i] \in {"\"", ";", Backtick}
    \/ i < Len(url) /\ url[i] = "&" /\ url[i + 1] = "&"

\* C24: an invocation whose URL carries shell metacharacters never returns
\* and leaves no file, whatever the server answers.
C24_InjectionUrlRejected ==
  (dl.pc # "idle" /\ C24_ShellMetacharacters(dl.url.str)) =>
    (dl.pc # "returned" /\ fs.files = {})

\* ------------------------------------------------------------ claims on the provider state
\* C28: an initializeApiConfig call that throws leaves the stored
\* credentials and the provider state as they were before the call.
C28_FailedInitStep ==
  (calls' = calls /\ lastInit'.result = "threw") =>
    (apiConfig' = apiConfig /\ apiState' = apiState)
C28_FailedInitChangesNothing == [][C28_FailedInitStep]_vars

\* C27: serpDisabled is false in every reachable state: switchApiProvider
\* never takes its SerpAPI-to-Google branch.
C27_SerpNeverDisabled == ~apiState.serpDisabled
\* A rate-limit error from SerpAPI, the current provider, ended an
\* invocation without a switch.
C27_Witness ==
  \E s \in Slots :
    /\ calls[s].pc = "threw"
    /\ calls[s].attempts = <<SERP_API>>
    /\ IsRateLimitError(calls[s].thrown) = "true"
    /\ apiState.currentProvider = SERP_API
    /\ ~apiState.googleDisabled /\ ~apiState.serpDisabled

\* C25: two invocations that awaited provider A's first response at the
\* same time and both got a rate-limit error, while B has credentials and
\* was never rate-limited, both retry on B, and A ends disabled with B
\* current and not disabled.
C25_RateLimitedOn(c, p) ==
  /\ c.overlapped
  /\ c.attempts # <<>> /\ c.attempts[1] = p
  /\ c.errs # <<>> /\ IsRateLimitError(c.errs[1]) = "true"
\* Provider b has credentials and was never rate-limited.
C25_AlternateUsable(b) ==
  IF b = SERP_API
  THEN apiConfig.serpApiKey = "key" /\ ~apiState.serpDisabled
  ELSE apiConfig.googleApiKey = "key" /\ apiConfig.googleCseId = "key"
       /\ ~apiState.googleDisabled
C25_EachOverlappingCallRetries ==
  \A p \in ApiProvider :
    (/\ C25_AlternateUsable(Other(p))
     /\ \A s \in Slots : C25_RateLimitedOn(calls[s], p)) =>
      /\ \A s \in Slots : calls[s].attempts = <<p, Other(p)>>
      /\ apiState.currentProvider = Other(p)
      /\ IF p = GOOGLE_CUSTOM_SEARCH THEN apiState.googleDisabled ELSE apiState.serpDisabled

\* C26: the current provider is never one flagged disabled.
C26_ActiveNeverDisabled ==
  /\ apiState.currentProvider = GOOGLE_CUSTOM_SEARCH => ~apiState.googleDisabled
  /\ apiState.currentProvider = SERP_API => ~apiState.serpDisabled

\* C29: an invocation that fails before the write (unsafe URL, failed
\* request, undetected format, path traversal) leaves the file system as
\* it was when the invocation began; it creates no directory.
C29_FailedBeforeWrite ==
  /\ dl.pc = "threw"
  /\ dl.thrown \in {UnsafeUrlError, FetchError, UndetectedFormatError, TraversalError}
C29_FailureLeavesFilesystem == C29_FailedBeforeWrite => fs = dl.fsBefore

\* The sum of the resolution bonus and the non-product bonus.
C30_Bonuses(image) == C20_Expected(image, <<>>)
C30_Blank(criteria) == \A i \in 1..Len(criteria) : criteria[i] \in Whitespace
\* criteria without its leading and trailing whitespace.
C30_Trim(criteria) ==
  IF C30_Blank(criteria) THEN <<>>
  ELSE LET first == CHOOSE i \in 1..Len(criteria) :
                      criteria[i] \notin Whitespace
                      /\ \A j \in 1..(i - 1) : criteria[j] \in Whitespace
           last == CHOOSE i \in 1..Len(criteria) :
                     criteria[i] \notin Whitespace
                     /\ \A j \in (i + 1)..Len(criteria) : criteria[j] \in Whitespace
       IN SubSeq(criteria, first, last)

\* C30: empty or whitespace-only criteria give the two bonuses alone, and
\* the score of any criteria is the score of the criteria trimmed.
C30_BlankCriteriaScoreNothing ==
  sc.pc = "done" =>
    /\ C30_Blank(sc.criteria) => sc.score = C30_Bonuses(sc.image)
    /\ ~C30_Blank(sc.criteria) =>
         sc.score = 2 * C20_Occurrences(sc.image.title, C20_Tokens(C30_Trim(sc.criteria)))
                    + C30_Bonuses(sc.image)

====
